---- MODULE Spec2Model ----
(***************************************************************************)
(* Dark Knight Phantom SIEM: the detection engine (apps/detection/engine)  *)
(* as a state machine over the tracker store, the alert store, the rule    *)
(* table and each engine's cached rule map.  Time is counted in minutes.   *)
(***************************************************************************)
EXTENDS Integers, Sequences, FiniteSets, TLC

\* ------------------------------------------------------------------------
\* Bounds of the model
\* ------------------------------------------------------------------------
MaxEvents == 3

MaxNow == 3

MaxAge == 3

MaxBurst == 5

MaxSkew == 1

MaxTriggers == 3

MaxCalls == 2

MaxLogons == 7

\* ------------------------------------------------------------------------
\* Program constants
\* ------------------------------------------------------------------------
NOISE_EVENT_IDS == {4798, 4799, 5320, 5351, 5117, 4117, 5857, 7040}

CLEANUP_MINUTES == 60

MATCHED_EVENTS_LIMIT == 50

DEFAULT_WINDOW_MINUTES == 10

DEFAULT_THRESHOLD == 5

SYSTEM_ACCOUNTS ==
    { <<"s", "y", "s", "t", "e", "m">>,
      <<"l", "o", "c", "a", "l", " ", "s", "e", "r", "v", "i", "c", "e">>,
      <<"n", "e", "t", "w", "o", "r", "k", " ", "s", "e", "r", "v", "i", "c", "e">>,
      <<"a", "n", "o", "n", "y", "m", "o", "u", "s", " ", "l", "o", "g", "o", "n">>,
      <<"n", "t", " ", "a", "u", "t", "h", "o", "r", "i", "t", "y", "\\", "s", "y", "s", "t", "e", "m">>,
      <<"n", "t", " ", "a", "u", "t", "h", "o", "r", "i", "t", "y", "\\", "l", "o", "c", "a", "l", " ", "s", "e", "r", "v", "i", "c", "e">>,
      <<"n", "t", " ", "a", "u", "t", "h", "o", "r", "i", "t", "y", "\\", "n", "e", "t", "w", "o", "r", "k", " ", "s", "e", "r", "v", "i", "c", "e">>,
      <<"w", "i", "n", "d", "o", "w", " ", "m", "a", "n", "a", "g", "e", "r", "\\", "d", "w", "m", "-", "1">>,
      <<"w", "i", "n", "d", "o", "w", " ", "m", "a", "n", "a", "g", "e", "r", "\\", "d", "w", "m", "-", "2">>,
      <<"w", "i", "n", "d", "o", "w", " ", "m", "a", "n", "a", "g", "e", "r", "\\", "d", "w", "m", "-", "3">>,
      <<"f", "o", "n", "t", " ", "d", "r", "i", "v", "e", "r", " ", "h", "o", "s", "t", "\\", "u", "m", "f", "d", "-", "0">>,
      <<"f", "o", "n", "t", " ", "d", "r", "i", "v", "e", "r", " ", "h", "o", "s", "t", "\\", "u", "m", "f", "d", "-", "1">>,
      <<"f", "o", "n", "t", " ", "d", "r", "i", "v", "e", "r", " ", "h", "o", "s", "t", "\\", "u", "m", "f", "d", "-", "2">>,
      <<"f", "o", "n", "t", " ", "d", "r", "i", "v", "e", "r", " ", "h", "o", "s", "t", "\\", "u", "m", "f", "d", "-", "3">>,
      <<"$">>,
      <<"-">>,
      <<>>,
      <<"n", "/", "a">>,
      <<"n", "o", "n", "e">>,
      <<"d", "e", "f", "a", "u", "l", "t", "a", "c", "c", "o", "u", "n", "t">>,
      <<"g", "u", "e", "s", "t">>,
      <<"w", "d", "a", "g", "u", "t", "i", "l", "i", "t", "y", "a", "c", "c", "o", "u", "n", "t">>,
      <<"s", "v", "c", "_">>,
      <<"s", "e", "r", "v", "i", "c", "e", "_">>,
      <<"s", "q", "l">>,
      <<"i", "i", "s">>,
      <<"s", "c", "o", "m">>,
      <<"e", "x", "c", "h", "a", "n", "g", "e">>,
      <<"b", "a", "c", "k", "u", "p">> }

\* ------------------------------------------------------------------------
\* Strings.  A string value is a TLA+ string; the operations the code does
\* on its characters (lower, strip, startswith, endswith, in) are computed
\* on the character sequence Chars gives for it.
\* ------------------------------------------------------------------------
Chars(s) ==
    CASE s = "" -> <<>>
      [] s = "alice" -> <<"a", "l", "i", "c", "e">>
      [] s = "bob" -> <<"b", "o", "b">>
      [] s = "carol" -> <<"c", "a", "r", "o", "l">>
      [] s = "SYSTEM" -> <<"S", "Y", "S", "T", "E", "M">>
      [] s = "WKS01$" -> <<"W", "K", "S", "0", "1", "$">>
      [] s = "svc_backup" -> <<"s", "v", "c", "_", "b", "a", "c", "k", "u", "p">>
      [] s = "h1" -> <<"h", "1">>
      [] s = "h2" -> <<"h", "2">>
      [] s = "ip1" -> <<"i", "p", "1">>
      [] s = "ip2" -> <<"i", "p", "2">>
      [] s = "p1" -> <<"p", "1">>
      [] s = "p2" -> <<"p", "2">>
      [] s = "s1" -> <<"s", "1">>
      [] s = "s2" -> <<"s", "2">>
      [] s = "w1" -> <<"w", "1">>
      [] s = "w2" -> <<"w", "2">>
      [] s = "H1" -> <<"H", "1">>
      [] s = "SEARCH" -> <<"S", "E", "A", "R", "C", "H">>
      [] s = "HUNT" -> <<"H", "U", "N", "T">>
      [] s = "AGGREGATE" -> <<"A", "G", "G", "R", "E", "G", "A", "T", "E">>
      [] s = "TIMELINE" -> <<"T", "I", "M", "E", "L", "I", "N", "E">>
      [] s = "CORRELATE" -> <<"C", "O", "R", "R", "E", "L", "A", "T", "E">>
      [] s = "WHERE" -> <<"W", "H", "E", "R", "E">>
      [] s = "AND" -> <<"A", "N", "D">>
      [] s = "OR" -> <<"O", "R">>
      [] s = "NOT" -> <<"N", "O", "T">>
      [] s = "IN" -> <<"I", "N">>
      [] s = "CONTAINS" -> <<"C", "O", "N", "T", "A", "I", "N", "S">>
      [] s = "LIKE" -> <<"L", "I", "K", "E">>
      [] s = "ORDER" -> <<"O", "R", "D", "E", "R">>
      [] s = "BY" -> <<"B", "Y">>
      [] s = "ASC" -> <<"A", "S", "C">>
      [] s = "DESC" -> <<"D", "E", "S", "C">>
      [] s = "LIMIT" -> <<"L", "I", "M", "I", "T">>
      [] s = "OFFSET" -> <<"O", "F", "F", "S", "E", "T">>
      [] s = "GROUP" -> <<"G", "R", "O", "U", "P">>
      [] s = "HAVING" -> <<"H", "A", "V", "I", "N", "G">>
      [] s = "COUNT" -> <<"C", "O", "U", "N", "T">>
      [] s = "SUM" -> <<"S", "U", "M">>
      [] s = "AVG" -> <<"A", "V", "G">>
      [] s = "MIN" -> <<"M", "I", "N">>
      [] s = "MAX" -> <<"M", "A", "X">>
      [] s = "DISTINCT" -> <<"D", "I", "S", "T", "I", "N", "C", "T">>
      [] s = "TOP" -> <<"T", "O", "P">>
      [] s = "WITHIN" -> <<"W", "I", "T", "H", "I", "N">>
      [] s = "FROM" -> <<"F", "R", "O", "M">>
      [] s = "TO" -> <<"T", "O">>
      [] s = "AS" -> <<"A", "S">>
      [] s = "NOW" -> <<"N", "O", "W">>
      [] s = "TRUE" -> <<"T", "R", "U", "E">>
      [] s = "FALSE" -> <<"F", "A", "L", "S", "E">>
      [] s = "NULL" -> <<"N", "U", "L", "L">>
      [] s = "event_id" -> <<"e", "v", "e", "n", "t", "_", "i", "d">>
      [] s = "timestamp" -> <<"t", "i", "m", "e", "s", "t", "a", "m", "p">>
      [] s = "hostname" -> <<"h", "o", "s", "t", "n", "a", "m", "e">>
      [] s = "channel" -> <<"c", "h", "a", "n", "n", "e", "l">>
      [] s = "severity" -> <<"s", "e", "v", "e", "r", "i", "t", "y">>
      [] s = "user_name" -> <<"u", "s", "e", "r", "_", "n", "a", "m", "e">>
      [] s = "user" -> <<"u", "s", "e", "r">>
      [] s = "source_ip" -> <<"s", "o", "u", "r", "c", "e", "_", "i", "p">>
      [] s = "dest_ip" -> <<"d", "e", "s", "t", "_", "i", "p">>
      [] s = "destination_ip" -> <<"d", "e", "s", "t", "i", "n", "a", "t", "i", "o", "n", "_", "i", "p">>
      [] s = "process_name" -> <<"p", "r", "o", "c", "e", "s", "s", "_", "n", "a", "m", "e">>
      [] s = "process" -> <<"p", "r", "o", "c", "e", "s", "s">>
      [] s = "process_path" -> <<"p", "r", "o", "c", "e", "s", "s", "_", "p", "a", "t", "h">>
      [] s = "command_line" -> <<"c", "o", "m", "m", "a", "n", "d", "_", "l", "i", "n", "e">>
      [] s = "cmd" -> <<"c", "m", "d">>
      [] s = "service_name" -> <<"s", "e", "r", "v", "i", "c", "e", "_", "n", "a", "m", "e">>
      [] s = "service" -> <<"s", "e", "r", "v", "i", "c", "e">>
      [] s = "message" -> <<"m", "e", "s", "s", "a", "g", "e">>
      [] s = "msg" -> <<"m", "s", "g">>
      [] s = "agent_id" -> <<"a", "g", "e", "n", "t", "_", "i", "d">>
      [] s = "logon_type" -> <<"l", "o", "g", "o", "n", "_", "t", "y", "p", "e">>
      [] s = "raw_xml" -> <<"r", "a", "w", "_", "x", "m", "l">>
      [] s = "xml" -> <<"x", "m", "l">>
      [] s = "event_data" -> <<"e", "v", "e", "n", "t", "_", "d", "a", "t", "a">>
      [] s = "data" -> <<"d", "a", "t", "a">>
      [] s = "full_text" -> <<"f", "u", "l", "l", "_", "t", "e", "x", "t">>
      [] s = "text" -> <<"t", "e", "x", "t">>
      [] s = "id" -> <<"i", "d">>
      [] s = "bogus_field" -> <<"b", "o", "g", "u", "s", "_", "f", "i", "e", "l", "d">>
      [] s = "other_field" -> <<"o", "t", "h", "e", "r", "_", "f", "i", "e", "l", "d">>
      [] s = "events" -> <<"e", "v", "e", "n", "t", "s">>
      [] s = "CRITICAL" -> <<"C", "R", "I", "T", "I", "C", "A", "L">>
      [] s = "HIGH" -> <<"H", "I", "G", "H">>
      [] s = "INFO" -> <<"I", "N", "F", "O">>
      [] s = "critical" -> <<"c", "r", "i", "t", "i", "c", "a", "l">>
      [] s = "=" -> <<"=">>
      [] s = "==" -> <<"=", "=">>
      [] s = "!=" -> <<"!", "=">>
      [] s = ">" -> <<">">>
      [] s = ">=" -> <<">", "=">>
      [] s = "<" -> <<"<">>
      [] s = "<=" -> <<"<", "=">>
      [] s = "(" -> <<"(">>
      [] s = ")" -> <<")">>
      [] s = "," -> <<",">>
      [] s = "'a b'" -> <<"'", "a", " ", "b", "'">>
      [] s = "0" -> <<"0">>
      [] s = "1" -> <<"1">>
      [] s = "2" -> <<"2">>
      [] s = "5" -> <<"5">>
      [] s = "10" -> <<"1", "0">>
      [] s = "20" -> <<"2", "0">>
      [] s = "100" -> <<"1", "0", "0">>
      [] s = "500" -> <<"5", "0", "0">>
      [] s = "600" -> <<"6", "0", "0">>
      [] s = "5000" -> <<"5", "0", "0", "0">>
      [] s = "6000" -> <<"6", "0", "0", "0">>
      [] s = "4624" -> <<"4", "6", "2", "4">>
      [] s = "4625" -> <<"4", "6", "2", "5">>
      [] s = "-5" -> <<"-", "5">>
      [] s = "1h" -> <<"1", "h">>
      [] s = "%ali%" -> <<"%", "a", "l", "i", "%">>
      [] s = "ali" -> <<"a", "l", "i">>
      [] s = "event_record_id" -> <<"e", "v", "e", "n", "t", "_", "r", "e", "c", "o", "r", "d", "_", "i", "d">>
      [] s = "correlation_id" -> <<"c", "o", "r", "r", "e", "l", "a", "t", "i", "o", "n", "_", "i", "d">>
      [] s = "received_at" -> <<"r", "e", "c", "e", "i", "v", "e", "d", "_", "a", "t">>
      [] s = "source" -> <<"s", "o", "u", "r", "c", "e">>
      [] s = "provider_name" -> <<"p", "r", "o", "v", "i", "d", "e", "r", "_", "n", "a", "m", "e">>
      [] s = "provider_guid" -> <<"p", "r", "o", "v", "i", "d", "e", "r", "_", "g", "u", "i", "d">>
      [] s = "domain" -> <<"d", "o", "m", "a", "i", "n">>
      [] s = "ip_address" -> <<"i", "p", "_", "a", "d", "d", "r", "e", "s", "s">>
      [] s = "category" -> <<"c", "a", "t", "e", "g", "o", "r", "y">>
      [] s = "level" -> <<"l", "e", "v", "e", "l">>
      [] s = "level_name" -> <<"l", "e", "v", "e", "l", "_", "n", "a", "m", "e">>
      [] s = "task" -> <<"t", "a", "s", "k">>
      [] s = "task_name" -> <<"t", "a", "s", "k", "_", "n", "a", "m", "e">>
      [] s = "opcode" -> <<"o", "p", "c", "o", "d", "e">>
      [] s = "opcode_name" -> <<"o", "p", "c", "o", "d", "e", "_", "n", "a", "m", "e">>
      [] s = "keywords" -> <<"k", "e", "y", "w", "o", "r", "d", "s">>
      [] s = "user_data" -> <<"u", "s", "e", "r", "_", "d", "a", "t", "a">>
      [] s = "system_data" -> <<"s", "y", "s", "t", "e", "m", "_", "d", "a", "t", "a">>
      [] s = "user_domain" -> <<"u", "s", "e", "r", "_", "d", "o", "m", "a", "i", "n">>
      [] s = "user_sid" -> <<"u", "s", "e", "r", "_", "s", "i", "d">>
      [] s = "target_user_name" -> <<"t", "a", "r", "g", "e", "t", "_", "u", "s", "e", "r", "_", "n", "a", "m", "e">>
      [] s = "target_user_domain" -> <<"t", "a", "r", "g", "e", "t", "_", "u", "s", "e", "r", "_", "d", "o", "m", "a", "i", "n">>
      [] s = "target_user_sid" -> <<"t", "a", "r", "g", "e", "t", "_", "u", "s", "e", "r", "_", "s", "i", "d">>
      [] s = "process_id" -> <<"p", "r", "o", "c", "e", "s", "s", "_", "i", "d">>
      [] s = "parent_process_id" -> <<"p", "a", "r", "e", "n", "t", "_", "p", "r", "o", "c", "e", "s", "s", "_", "i", "d">>
      [] s = "parent_process_name" -> <<"p", "a", "r", "e", "n", "t", "_", "p", "r", "o", "c", "e", "s", "s", "_", "n", "a", "m", "e">>
      [] s = "parent_command_line" -> <<"p", "a", "r", "e", "n", "t", "_", "c", "o", "m", "m", "a", "n", "d", "_", "l", "i", "n", "e">>
      [] s = "source_port" -> <<"s", "o", "u", "r", "c", "e", "_", "p", "o", "r", "t">>
      [] s = "destination_port" -> <<"d", "e", "s", "t", "i", "n", "a", "t", "i", "o", "n", "_", "p", "o", "r", "t">>
      [] s = "protocol" -> <<"p", "r", "o", "t", "o", "c", "o", "l">>
      [] s = "logon_type_name" -> <<"l", "o", "g", "o", "n", "_", "t", "y", "p", "e", "_", "n", "a", "m", "e">>
      [] s = "logon_id" -> <<"l", "o", "g", "o", "n", "_", "i", "d">>
      [] s = "authentication_package" -> <<"a", "u", "t", "h", "e", "n", "t", "i", "c", "a", "t", "i", "o", "n", "_", "p", "a", "c", "k", "a", "g", "e">>
      [] s = "workstation_name" -> <<"w", "o", "r", "k", "s", "t", "a", "t", "i", "o", "n", "_", "n", "a", "m", "e">>
      [] s = "object_name" -> <<"o", "b", "j", "e", "c", "t", "_", "n", "a", "m", "e">>
      [] s = "object_type" -> <<"o", "b", "j", "e", "c", "t", "_", "t", "y", "p", "e">>
      [] s = "access_mask" -> <<"a", "c", "c", "e", "s", "s", "_", "m", "a", "s", "k">>
      [] s = "service_type" -> <<"s", "e", "r", "v", "i", "c", "e", "_", "t", "y", "p", "e">>
      [] s = "service_start_type" -> <<"s", "e", "r", "v", "i", "c", "e", "_", "s", "t", "a", "r", "t", "_", "t", "y", "p", "e">>
      [] s = "service_account" -> <<"s", "e", "r", "v", "i", "c", "e", "_", "a", "c", "c", "o", "u", "n", "t">>
      [] s = "object_dn" -> <<"o", "b", "j", "e", "c", "t", "_", "d", "n">>
      [] s = "object_guid" -> <<"o", "b", "j", "e", "c", "t", "_", "g", "u", "i", "d">>
      [] s = "object_class" -> <<"o", "b", "j", "e", "c", "t", "_", "c", "l", "a", "s", "s">>
      [] s = "attribute_name" -> <<"a", "t", "t", "r", "i", "b", "u", "t", "e", "_", "n", "a", "m", "e">>
      [] s = "attribute_value" -> <<"a", "t", "t", "r", "i", "b", "u", "t", "e", "_", "v", "a", "l", "u", "e">>
      [] s = "ticket_encryption_type" -> <<"t", "i", "c", "k", "e", "t", "_", "e", "n", "c", "r", "y", "p", "t", "i", "o", "n", "_", "t", "y", "p", "e">>
      [] s = "ticket_options" -> <<"t", "i", "c", "k", "e", "t", "_", "o", "p", "t", "i", "o", "n", "s">>
      [] s = "service_name_kerberos" -> <<"s", "e", "r", "v", "i", "c", "e", "_", "n", "a", "m", "e", "_", "k", "e", "r", "b", "e", "r", "o", "s">>
      [] s = "file_hash_md5" -> <<"f", "i", "l", "e", "_", "h", "a", "s", "h", "_", "m", "d", "5">>
      [] s = "file_hash_sha1" -> <<"f", "i", "l", "e", "_", "h", "a", "s", "h", "_", "s", "h", "a", "1">>
      [] s = "file_hash_sha256" -> <<"f", "i", "l", "e", "_", "h", "a", "s", "h", "_", "s", "h", "a", "2", "5", "6">>
      [] s = "status" -> <<"s", "t", "a", "t", "u", "s">>
      [] s = "status_code" -> <<"s", "t", "a", "t", "u", "s", "_", "c", "o", "d", "e">>
      [] s = "failure_reason" -> <<"f", "a", "i", "l", "u", "r", "e", "_", "r", "e", "a", "s", "o", "n">>
      [] s = "tags" -> <<"t", "a", "g", "s">>
      [] s = "is_processed" -> <<"i", "s", "_", "p", "r", "o", "c", "e", "s", "s", "e", "d">>
      [] s = "is_alerted" -> <<"i", "s", "_", "a", "l", "e", "r", "t", "e", "d">>
      [] s = "True" -> <<"T", "r", "u", "e">>
      [] s = "False" -> <<"F", "a", "l", "s", "e">>
      [] s = "count" -> <<"c", "o", "u", "n", "t">>
      [] s = "first_seen" -> <<"f", "i", "r", "s", "t", "_", "s", "e", "e", "n">>
      [] s = "last_seen" -> <<"l", "a", "s", "t", "_", "s", "e", "e", "n">>
      [] s = "this" -> <<"t", "h", "i", "s">>
      [] s = "abc" -> <<"a", "b", "c">>
      [] s = "yesterday" -> <<"y", "e", "s", "t", "e", "r", "d", "a", "y">>
      [] s = "%RIT%" -> <<"%", "R", "I", "T", "%">>
      [] s = "C_ITICAL" -> <<"C", "_", "I", "T", "I", "C", "A", "L">>
      [] s = "RIT" -> <<"R", "I", "T">>
      [] s = "crit" -> <<"c", "r", "i", "t">>
      [] s = "WKS" -> <<"W", "K", "S">>
      [] s = "srv01" -> <<"s", "r", "v", "0", "1">>
      [] s = "srv02" -> <<"s", "r", "v", "0", "2">>
      [] s = "WS01" -> <<"W", "S", "0", "1">>
      [] s = "4" -> <<"4">>
      [] s = "46" -> <<"4", "6">>
      [] s = "3" -> <<"3">>
      [] s = "7000" -> <<"7", "0", "0", "0">>
      [] s = "1m" -> <<"1", "m">>
      [] s = "60s" -> <<"6", "0", "s">>
      [] s = "2h" -> <<"2", "h">>
      [] s = "1d" -> <<"1", "d">>
      [] s = "1w" -> <<"1", "w">>
      [] s = "1.5" -> <<"1", ".", "5">>
      [] s = "24h" -> <<"2", "4", "h">>
      [] s = "1.5h" -> <<"1", ".", "5", "h">>
      [] s = "-5h" -> <<"-", "5", "h">>
      [] s = "Domain Admins" -> <<"D", "o", "m", "a", "i", "n", " ", "A", "d", "m", "i", "n", "s">>
      [] s = "Administrators" -> <<"A", "d", "m", "i", "n", "i", "s", "t", "r", "a", "t", "o", "r", "s">>
      [] s = "Enterprise Admins" -> <<"E", "n", "t", "e", "r", "p", "r", "i", "s", "e", " ", "A", "d", "m", "i", "n", "s">>
      [] s = "Schema Admins" -> <<"S", "c", "h", "e", "m", "a", " ", "A", "d", "m", "i", "n", "s">>
      [] s = "Account Operators" -> <<"A", "c", "c", "o", "u", "n", "t", " ", "O", "p", "e", "r", "a", "t", "o", "r", "s">>
      [] s = "Backup Operators" -> <<"B", "a", "c", "k", "u", "p", " ", "O", "p", "e", "r", "a", "t", "o", "r", "s">>
      [] s = "NTLM" -> <<"N", "T", "L", "M">>
      [] s = "Kerberos" -> <<"K", "e", "r", "b", "e", "r", "o", "s">>
      [] s = "9" -> <<"9">>
      [] s = "Member added to Domain Admins" -> <<"M", "e", "m", "b", "e", "r", " ", "a", "d", "d", "e", "d", " ", "t", "o", " ", "D", "o", "m", "a", "i", "n", " ", "A", "d", "m", "i", "n", "s">>
      [] s = "Member added to Users" -> <<"M", "e", "m", "b", "e", "r", " ", "a", "d", "d", "e", "d", " ", "t", "o", " ", "U", "s", "e", "r", "s">>
      [] s = "Account created" -> <<"A", "c", "c", "o", "u", "n", "t", " ", "c", "r", "e", "a", "t", "e", "d">>

UpperLetters == <<"A","B","C","D","E","F","G","H","I","J","K","L","M","N","O","P","Q","R","S","T","U","V","W","X","Y","Z">>

LowerLetters == <<"a","b","c","d","e","f","g","h","i","j","k","l","m","n","o","p","q","r","s","t","u","v","w","x","y","z">>

LowerChar(c) ==
    IF \E i \in 1..26 : UpperLetters[i] = c
    THEN LowerLetters[CHOOSE i \in 1..26 : UpperLetters[i] = c]
    ELSE c

LowerChars(cs) == [i \in 1..Len(cs) |-> LowerChar(cs[i])]

RECURSIVE StripChars(_)
StripChars(cs) ==
    IF cs = <<>> THEN cs
    ELSE IF Head(cs) = " " THEN StripChars(Tail(cs))
    ELSE IF cs[Len(cs)] = " " THEN StripChars(SubSeq(cs, 1, Len(cs) - 1))
    ELSE cs

StartsWith(cs, p) == Len(cs) >= Len(p) /\ SubSeq(cs, 1, Len(p)) = p

EndsWith(cs, p) == Len(cs) >= Len(p) /\ SubSeq(cs, Len(cs) - Len(p) + 1, Len(cs)) = p

Contains(cs, p) == \E i \in 1..(Len(cs) - Len(p) + 1) : SubSeq(cs, i, i + Len(p) - 1) = p

\* str.upper() of the track_by values the rules use (entity_type=track_by.upper())
Upper(track_by) ==
    CASE track_by = "user_name" -> "USER_NAME"
      [] track_by = "target_user" -> "TARGET_USER"
      [] track_by = "source_ip" -> "SOURCE_IP"
      [] track_by = "hostname" -> "HOSTNAME"
      [] track_by = "process" -> "PROCESS"
      [] track_by = "service" -> "SERVICE"
      [] track_by = "workstation_name" -> "WORKSTATION_NAME"

\* DetectionEngine.is_system_account
is_system_account(user_name) ==
    IF user_name = "" THEN TRUE
    ELSE LET user_lower == StripChars(LowerChars(Chars(user_name))) IN
         \/ user_lower \in SYSTEM_ACCOUNTS
         \/ EndsWith(user_lower, <<"$">>)
         \/ StartsWith(user_lower, <<"d","w","m","-">>)
         \/ StartsWith(user_lower, <<"u","m","f","d","-">>)
         \/ Contains(user_lower, <<"n","t"," ","a","u","t","h","o","r","i","t","y">>)
         \/ Contains(user_lower, <<"n","t"," ","s","e","r","v","i","c","e">>)
         \/ Contains(user_lower, <<"w","i","n","d","o","w"," ","m","a","n","a","g","e","r">>)
         \/ Contains(user_lower, <<"f","o","n","t"," ","d","r","i","v","e","r">>)
         \/ StartsWith(user_lower, <<"s","v","c","_">>)
         \/ StartsWith(user_lower, <<"s","v","c","-">>)
         \/ StartsWith(user_lower, <<"s","e","r","v","i","c","e","_">>)
         \/ StartsWith(user_lower, <<"s","e","r","v","i","c","e","-">>)

\* ------------------------------------------------------------------------
\* Data
\* ------------------------------------------------------------------------
\* an optional value: None, or Some(x)
None == << >>

Some(x) == << x >>

Workers == {1, 2}

NoUniqueThreshold == [field |-> "", min |-> 0]

\* rule.logic with the defaults logic.get(...) supplies for absent keys
DefaultLogic ==
    [ track_by |-> "user_name",
      window_minutes |-> DEFAULT_WINDOW_MINUTES,
      event_ids |-> {},
      exclude_system_accounts |-> TRUE,
      threshold |-> DEFAULT_THRESHOLD,
      unique_threshold |-> NoUniqueThreshold,
      track_unique |-> {},
      sequence |-> <<>>,
      patterns |-> {},
      required_matches |-> None,
      required_events |-> {},
      min_counts |-> << >> ]

\* A DetectionRule row
Rule(id, rule_type, cooldown_minutes, min_confidence, logic) ==
    [ id |-> id, rule_type |-> rule_type, enabled |-> TRUE,
      cooldown_minutes |-> cooldown_minutes, min_confidence |-> min_confidence,
      total_alerts |-> 0, false_positives |-> 0, logic |-> logic ]

\* An AlertSuppressionRule row; conditions maps a field to a list of values
Suppression(id, rule_id, enabled, expires_at, conditions) ==
    [ id |-> id, detection_rule |-> rule_id, enabled |-> enabled,
      expires_at |-> expires_at, conditions |-> conditions ]

\* A SecurityEvent row as the ingestion path stores it
Event(event_id, timestamp, hostname, user_name, target_user_name, source_ip, process_name, service_name, workstation_name) ==
    [ pk |-> 0, event_id |-> event_id, timestamp |-> timestamp,
      hostname |-> hostname, user_name |-> user_name,
      target_user_name |-> target_user_name, source_ip |-> source_ip,
      process_name |-> process_name, service_name |-> service_name,
      workstation_name |-> workstation_name ]

NoEvent == Event(0, 0, "", "", "", "", "", "", "")

\* no endpoint has answered yet
NoResponse == [status |-> 0]

\* ------------------------------------------------------------------------
\* State
\* ------------------------------------------------------------------------
VARIABLES
    now,            \* wall clock (timezone.now()), minutes
    rules,          \* DetectionRule table: rule id -> row
    suppressions,   \* AlertSuppressionRule table: set of rows
    trackers,       \* EntityTracker table: set of rows
    alerts,         \* DetectionAlert table: set of rows
    events,         \* SecurityEvent table: the stored rows, in insertion order
    engine,         \* per worker process: DetectionEngine.rules, the cached rows
    nextEventPk,    \* next SecurityEvent primary key
    nextTrackerPk,  \* next EntityTracker primary key
    nextAlertPk,    \* next DetectionAlert primary key
    lastEvent,      \* the event of the latest process_event call
    lastAlerts,     \* the list that call returned
    pc,             \* per worker: position inside process_event
    local,          \* per worker: the locals of the call in progress
    lastRaised,     \* whether the latest process_event call raised
    processed,      \* the events passed to process_event_detection, in order
    response,       \* the response of the latest endpoint call
    history,        \* QueryHistory table: the rows, in insertion order
    savedQueries    \* SavedQuery table: id -> row

vars == << now, rules, suppressions, trackers, alerts, events, engine, nextEventPk,
           nextTrackerPk, nextAlertPk, lastEvent, lastAlerts, pc, local,
           lastRaised, processed, response, history, savedQueries >>

\* ------------------------------------------------------------------------
\* EntityTracker methods
\* ------------------------------------------------------------------------
RECURSIVE SumCounts(_, _)
SumCounts(counts, ids) ==
    IF ids = {} THEN 0
    ELSE LET eid == CHOOSE x \in ids : TRUE
         IN counts[eid] + SumCounts(counts, ids \ {eid})

get_event_count(tracker, event_id) ==
    IF event_id \in DOMAIN tracker.event_counts THEN tracker.event_counts[event_id] ELSE 0

get_total_count(tracker, event_ids) ==
    SumCounts(tracker.event_counts, event_ids \cap DOMAIN tracker.event_counts)

get_total_count_all(tracker) ==
    SumCounts(tracker.event_counts, DOMAIN tracker.event_counts)

increment_event(tracker, event_id, event_pk) ==
    [ tracker EXCEPT
        !.event_counts = (event_id :> (get_event_count(tracker, event_id) + 1)) @@ @,
        !.event_ids = Append(@, event_pk) ]

add_unique_value(tracker, field, value) ==
    [ tracker EXCEPT
        !.unique_values =
            (field :> ((IF field \in DOMAIN @ THEN @[field] ELSE {}) \cup {value})) @@ @ ]

get_unique_count(tracker, field) ==
    IF field \in DOMAIN tracker.unique_values
    THEN Cardinality(tracker.unique_values[field]) ELSE 0

\* tracker.event_ids[-50:]
LastN(s, n) == IF Len(s) <= n THEN s ELSE SubSeq(s, Len(s) - n + 1, Len(s))

NewTracker(pk, entity_type, entity_value, hostname, reference_time, window_minutes) ==
    [ pk |-> pk, entity_type |-> entity_type, entity_value |-> entity_value,
      hostname |-> hostname, window_start |-> reference_time,
      window_end |-> reference_time + window_minutes,
      event_counts |-> << >>, unique_values |-> << >>, event_ids |-> << >>,
      last_event_time |-> None ]

\* ------------------------------------------------------------------------
\* DetectionEngine.get_or_create_tracker
\* ------------------------------------------------------------------------
\* EntityTracker.objects.filter(window_end__lt=cleanup_threshold).delete()
cleanup_trackers(table, clock) ==
    { t \in table : ~(t.window_end < clock - CLEANUP_MINUTES) }

\* EntityTracker.objects.filter(entity_type=, entity_value=, hostname=,
\*                              window_end__gte=window_start)
overlapping_trackers(table, entity_type, entity_value, hostname, window_start) ==
    { t \in table : /\ t.entity_type = entity_type
                    /\ t.entity_value = entity_value
                    /\ t.hostname = hostname
                    /\ t.window_end >= window_start }

\* QuerySet.first(): the rows it may return.  The tracker model declares the
\* ordering; the engine asks for none, so any matching row may come first.
first(queryset) == queryset

\* "Extend window if needed"
extend_window(tracker, reference_time, window_minutes) ==
    IF reference_time > tracker.window_end
    THEN [tracker EXCEPT !.window_end = reference_time + window_minutes]
    ELSE tracker

\* Model.save(): update the row with this primary key, insert it when absent
save_row(table, row) == { t \in table : t.pk # row.pk } \cup {row}

\* The outcomes of one call: the table afterwards, the tracker object returned
\* and the next free primary key.
get_or_create_tracker(table, nextPk, entity_type, entity_value, hostname, window_minutes, event_time, clock) ==
    LET reference_time == event_time
        window_start == reference_time - window_minutes
        kept == cleanup_trackers(table, clock)
        found == overlapping_trackers(kept, entity_type, entity_value, hostname, window_start)
    IN  IF found # {}
        THEN { LET tracker == extend_window(t, reference_time, window_minutes)
               IN [ trackers |-> save_row(kept, tracker), tracker |-> tracker,
                    nextTrackerPk |-> nextPk ] : t \in first(found) }
        ELSE LET tracker == NewTracker(nextPk, entity_type, entity_value, hostname,
                                       reference_time, window_minutes)
             IN { [ trackers |-> kept \cup {tracker}, tracker |-> tracker,
                    nextTrackerPk |-> nextPk + 1 ] }

\* ------------------------------------------------------------------------
\* DetectionEngine.check_suppression, check_cooldown, create_alert
\* ------------------------------------------------------------------------
suppression_is_active(s, clock) ==
    s.enabled /\ (s.expires_at = None \/ s.expires_at[1] > clock)

\* one suppression's conditions against the event: a field the event leaves
\* empty is skipped, a list pattern is compared case-insensitively
suppression_matches(s, event) ==
    \A field \in DOMAIN s.conditions :
        event[field] # "" =>
            LowerChars(Chars(event[field])) \in
                { LowerChars(Chars(p)) : p \in s.conditions[field] }

check_suppression(table, rule, event, clock) ==
    \E s \in table : /\ s.detection_rule = rule.id
                     /\ suppression_is_active(s, clock)
                     /\ suppression_matches(s, event)

check_cooldown(table, rule, entity_key, entity_type, clock) ==
    IF rule.cooldown_minutes <= 0 THEN FALSE
    ELSE LET cooldown_start == clock - rule.cooldown_minutes
             base_query == { a \in table : a.rule = rule.id /\ a.triggered_at >= cooldown_start }
         IN  IF entity_type \in {"USER_NAME", "TARGET_USER"}
             THEN \E a \in base_query : a.user_name = entity_key \/ a.target_user = entity_key
             ELSE IF entity_type = "SOURCE_IP"
             THEN \E a \in base_query : a.source_ip = entity_key
             ELSE IF entity_type = "HOSTNAME"
             THEN \E a \in base_query : a.hostname = entity_key
             ELSE \E a \in base_query : a.user_name = entity_key \/ a.hostname = entity_key

\* x or y for strings
Or(x, y) == IF x # "" THEN x ELSE y

\* DetectionAlert.objects.create(...); triggered_at is set by the store
\* variant of NewAlert that surfaces the whole event_ids list
NewAlert_all_event_ids(pk, rule, event, tracker, confidence, clock) ==
    [ pk |-> pk, rule |-> rule.id, hostname |-> event.hostname,
      user_name |-> Or(event.user_name, event.target_user_name),
      source_ip |-> event.source_ip,
      target_user |-> event.target_user_name,
      matched_events |-> tracker.event_ids,
      event_count |-> get_total_count_all(tracker),
      confidence |-> confidence,
      first_event_time |-> tracker.window_start,
      last_event_time |-> event.timestamp,
      triggered_at |-> clock, status |-> "NEW", resolved_at |-> None ]

NewAlert(pk, rule, event, tracker, confidence, clock) ==
    [ pk |-> pk, rule |-> rule.id, hostname |-> event.hostname,
      user_name |-> Or(event.user_name, event.target_user_name),
      source_ip |-> event.source_ip,
      target_user |-> event.target_user_name,
      matched_events |-> LastN(tracker.event_ids, MATCHED_EVENTS_LIMIT),
      event_count |-> get_total_count_all(tracker),
      confidence |-> confidence,
      first_event_time |-> tracker.window_start,
      last_event_time |-> event.timestamp,
      triggered_at |-> clock, status |-> "NEW", resolved_at |-> None ]

\* rule.total_alerts += 1 on the cached row, then
\* rule.save(update_fields=['total_alerts'])
save_total_alerts(table, cached) ==
    IF cached.id \in DOMAIN table
    THEN [table EXCEPT ![cached.id].total_alerts = cached.total_alerts]
    ELSE table

\* variant of create_alert without the test of min_confidence
create_alert_any_confidence(st, i, event, tracker, confidence, clock) ==
    IF check_cooldown(st.alerts, st.cache[i], tracker.entity_value, tracker.entity_type, clock)
    THEN st
    ELSE [ st EXCEPT !.alerts = @ \cup {NewAlert(st.nextAlertPk, st.cache[i], event, tracker, confidence, clock)},
                     !.nextAlertPk = @ + 1,
                     !.cache = [@ EXCEPT ![i].total_alerts = @ + 1],
                     !.rules = save_total_alerts(@, [st.cache[i] EXCEPT !.total_alerts = @ + 1]),
                     !.ret = Append(@, NewAlert(st.nextAlertPk, st.cache[i], event, tracker, confidence, clock)) ]

\* st is the store as one call sees it: trackers, alerts, rules, the calling
\* engine's cached rules (cache), the pk counters and the list being returned
\* (ret).  i is the position of the rule in the cache.
create_alert(st, i, event, tracker, confidence, clock) ==
    LET rule == st.cache[i]
        entity_key == tracker.entity_value
    IN  IF check_cooldown(st.alerts, rule, entity_key, tracker.entity_type, clock)
        THEN st
        ELSE IF confidence < rule.min_confidence
        THEN st
        ELSE LET alert == NewAlert(st.nextAlertPk, rule, event, tracker, confidence, clock)
                 counted == [rule EXCEPT !.total_alerts = @ + 1]
             IN [ st EXCEPT !.alerts = @ \cup {alert},
                            !.nextAlertPk = @ + 1,
                            !.cache = [@ EXCEPT ![i] = counted],
                            !.rules = save_total_alerts(@, counted),
                            !.ret = Append(@, alert) ]

\* ------------------------------------------------------------------------
\* The four rule types
\* ------------------------------------------------------------------------
Min(a, b) == IF a <= b THEN a ELSE b

THRESHOLD_CONFIDENCE(count, threshold) == Min(100, 50 + (count - threshold) * 10)

SEQUENCE_CONFIDENCE == 85

PATTERN_CONFIDENCE(matches) == Min(100, 70 + matches * 10)

CORRELATION_CONFIDENCE == 90

\* Each _evaluate_* decides whether the rule fires on the event and with what
\* confidence: None, or Some(confidence), which it hands to create_alert.
\* variant of _evaluate_threshold that fires only above the threshold
evaluate_threshold_strict(rule, event, tracker) ==
    LET logic == rule.logic
        event_ids == IF logic.event_ids # {} THEN logic.event_ids ELSE {event.event_id}
        count == get_total_count(tracker, event_ids)
    IN  IF count > logic.threshold
        THEN Some(THRESHOLD_CONFIDENCE(count, logic.threshold))
        ELSE None

evaluate_threshold(rule, event, tracker) ==
    LET logic == rule.logic
        threshold == logic.threshold
        event_ids == IF logic.event_ids # {} THEN logic.event_ids ELSE {event.event_id}
        count == get_total_count(tracker, event_ids)
    IN  IF count >= threshold
        THEN IF /\ logic.unique_threshold # NoUniqueThreshold
                /\ get_unique_count(tracker, logic.unique_threshold.field)
                       < logic.unique_threshold.min
             THEN None
             ELSE Some(THRESHOLD_CONFIDENCE(count, threshold))
        ELSE None

\* a step is [event_ids |-> set of ids, count |-> n]
step_satisfied(tracker, step) ==
    get_total_count(tracker, step.event_ids) >= step.count

\* variant of _evaluate_sequence without the test that the current event
\* belongs to the final step
evaluate_sequence_any_trigger(rule, event, tracker) ==
    LET sequence == rule.logic.sequence
    IN  IF Len(sequence) < 2 THEN None
        ELSE IF \A k \in 1..Len(sequence) : step_satisfied(tracker, sequence[k])
        THEN Some(SEQUENCE_CONFIDENCE)
        ELSE None

evaluate_sequence(rule, event, tracker) ==
    LET sequence == rule.logic.sequence
    IN  IF Len(sequence) < 2 THEN None
        ELSE IF \A k \in 1..Len(sequence) : step_satisfied(tracker, sequence[k])
        THEN IF event.event_id \notin sequence[Len(sequence)].event_ids
             THEN None
             ELSE Some(SEQUENCE_CONFIDENCE)
        ELSE None

\* a pattern is [field |-> name, list |-> sequence of elements]; an element
\* of the JSON list is a string or a number
Str(s) == [is_str |-> TRUE, s |-> s, n |-> 0]

Num(n) == [is_str |-> FALSE, s |-> "", n |-> n]

\* any(p.lower() in str(event_value).lower() for p in pattern), from
\* element k on: "match", "nomatch", or "raise" when p.lower() is asked of a
\* number before any string matched
RECURSIVE any_lower_in(_, _, _)
any_lower_in(list, k, value) ==
    IF k > Len(list) THEN "nomatch"
    ELSE IF ~list[k].is_str THEN "raise"
    ELSE IF Contains(LowerChars(Chars(value)), LowerChars(Chars(list[k].s))) THEN "match"
    ELSE any_lower_in(list, k + 1, value)

pattern_outcome(event, pattern) ==
    IF event[pattern.field] = "" THEN "nomatch"
    ELSE any_lower_in(pattern.list, 1, event[pattern.field])

pattern_matches(event, pattern) == pattern_outcome(event, pattern) = "match"

\* _evaluate_pattern raises (AttributeError) instead of returning
pattern_raises(rule, event) ==
    \E p \in rule.logic.patterns : pattern_outcome(event, p) = "raise"

evaluate_pattern(rule, event, tracker) ==
    LET logic == rule.logic
        matches == Cardinality({ p \in logic.patterns : pattern_matches(event, p) })
        required_matches == IF logic.required_matches = None
                            THEN Cardinality(logic.patterns)
                            ELSE logic.required_matches[1]
    IN  IF matches >= required_matches
        THEN Some(PATTERN_CONFIDENCE(matches))
        ELSE None

evaluate_correlation(rule, event, tracker) ==
    LET logic == rule.logic
        present_events == DOMAIN tracker.event_counts
    IN  IF /\ logic.required_events \subseteq present_events
           /\ \A eid \in DOMAIN logic.min_counts :
                  get_event_count(tracker, eid) >= logic.min_counts[eid]
        THEN Some(CORRELATION_CONFIDENCE)
        ELSE None

\* ------------------------------------------------------------------------
\* DetectionEngine.evaluate_rule and process_event
\* ------------------------------------------------------------------------
get_entity_value(event, track_by) ==
    CASE track_by = "user_name" -> Or(event.user_name, event.target_user_name)
      [] track_by = "source_ip" -> event.source_ip
      [] track_by = "hostname" -> event.hostname
      [] track_by = "target_user" -> event.target_user_name
      [] track_by = "process" -> event.process_name
      [] track_by = "service" -> event.service_name
      [] OTHER -> IF track_by \in DOMAIN event THEN event[track_by] ELSE ""

\* the early returns of evaluate_rule, before any tracker is looked up
rejected_before_tracker(rule, event, is_system, is_target_system) ==
    LET logic == rule.logic
    IN  \/ logic.event_ids # {} /\ event.event_id \notin logic.event_ids
        \/ /\ logic.exclude_system_accounts
           /\ \/ is_system /\ is_target_system
              \/ logic.track_by = "target_user" /\ is_target_system
              \/ logic.track_by = "user_name" /\ is_system
        \/ get_entity_value(event, logic.track_by) = ""

\* "Update tracker": increment, last_event_time, track_unique
RECURSIVE add_unique_values(_, _, _)
add_unique_values(tracker, event, fields) ==
    IF fields = {} THEN tracker
    ELSE LET f == CHOOSE x \in fields : TRUE
             t2 == IF event[f] # "" THEN add_unique_value(tracker, f, event[f]) ELSE tracker
         IN add_unique_values(t2, event, fields \ {f})

\* variant of "Update tracker" that counts an event identifier once
update_tracker_once(tracker, rule, event) ==
    IF \E k \in 1..Len(tracker.event_ids) : tracker.event_ids[k] = event.pk
    THEN tracker
    ELSE add_unique_values(
            [increment_event(tracker, event.event_id, event.pk)
                EXCEPT !.last_event_time = Some(event.timestamp)],
            event, rule.logic.track_unique)

update_tracker(tracker, rule, event) ==
    add_unique_values(
        [increment_event(tracker, event.event_id, event.pk)
            EXCEPT !.last_event_time = Some(event.timestamp)],
        event, rule.logic.track_unique)

\* "Evaluate based on rule type"
dispatch(rule, event, tracker) ==
    CASE rule.rule_type = "THRESHOLD" -> evaluate_threshold(rule, event, tracker)
      [] rule.rule_type = "SEQUENCE" -> evaluate_sequence(rule, event, tracker)
      [] rule.rule_type = "PATTERN" -> evaluate_pattern(rule, event, tracker)
      [] rule.rule_type = "CORRELATION" -> evaluate_correlation(rule, event, tracker)
      [] OTHER -> None

\* the rule type's evaluator raises an exception
dispatch_raises(rule, event, tracker) ==
    rule.rule_type = "PATTERN" /\ pattern_raises(rule, event)

\* variant of evaluate_rule that runs the periodic cleanup of
\* get_or_create_tracker before the early returns
evaluate_rule_cleanup_first(st, i, event, is_system, is_target_system, clock) ==
    IF rejected_before_tracker(st.cache[i], event, is_system, is_target_system)
    THEN {[st EXCEPT !.trackers = cleanup_trackers(@, clock)]}
    ELSE { LET tracker == update_tracker(g.tracker, st.cache[i], event)
               saved == [ st EXCEPT !.trackers = save_row(g.trackers, tracker),
                                    !.nextTrackerPk = g.nextTrackerPk ]
               fires == dispatch(st.cache[i], event, tracker)
           IN IF dispatch_raises(st.cache[i], event, tracker)
              THEN [saved EXCEPT !.raised = TRUE]
              ELSE IF fires = None THEN saved
              ELSE create_alert(saved, i, event, tracker, fires[1], clock)
           : g \in get_or_create_tracker(st.trackers, st.nextTrackerPk,
                     Upper(st.cache[i].logic.track_by),
                     get_entity_value(event, st.cache[i].logic.track_by),
                     event.hostname, st.cache[i].logic.window_minutes,
                     event.timestamp, clock) }

\* the stores after evaluating rule i of the cache, one per tracker that
\* the lookup may return
evaluate_rule(st, i, event, is_system, is_target_system, clock) ==
    LET rule == st.cache[i]
        logic == rule.logic
    IN  IF rejected_before_tracker(rule, event, is_system, is_target_system)
        THEN {st}
        ELSE { LET tracker == update_tracker(g.tracker, rule, event)
                   saved == [ st EXCEPT !.trackers = save_row(g.trackers, tracker),
                                        !.nextTrackerPk = g.nextTrackerPk ]
                   fires == dispatch(rule, event, tracker)
               IN IF dispatch_raises(rule, event, tracker)
                  THEN [saved EXCEPT !.raised = TRUE]
                  ELSE IF fires = None THEN saved
                  ELSE create_alert(saved, i, event, tracker, fires[1], clock)
               : g \in get_or_create_tracker(st.trackers, st.nextTrackerPk,
                         Upper(logic.track_by),
                         get_entity_value(event, logic.track_by),
                         event.hostname, logic.window_minutes,
                         event.timestamp, clock) }

\* variant of the loop body without try/except: the exception leaves it
evaluate_rule_uncaught(st, i, event, is_system, is_target_system, clock) ==
    evaluate_rule(st, i, event, is_system, is_target_system, clock)

\* try: evaluate_rule(...) except Exception: logger.error(...)
try_evaluate_rule(st, i, event, is_system, is_target_system, clock) ==
    { [out EXCEPT !.raised = FALSE]
        : out \in evaluate_rule(st, i, event, is_system, is_target_system, clock) }

\* the loop over self.rules from position i on; an exception that leaves the
\* loop body ends the call
RECURSIVE evaluate_rules(_, _, _, _, _, _)
evaluate_rules(sts, i, event, is_system, is_target_system, clock) ==
    IF sts = {} \/ \A st \in sts : i > Len(st.cache) THEN sts
    ELSE evaluate_rules(
            UNION { IF st.raised THEN {st}
                    ELSE try_evaluate_rule(st, i, event, is_system, is_target_system, clock)
                    : st \in sts },
            i + 1, event, is_system, is_target_system, clock)

\* variant of process_event without the noise filter
process_event_without_noise_filter(st, event, clock) ==
    evaluate_rules({st}, 1, event,
                   is_system_account(event.user_name),
                   is_system_account(event.target_user_name), clock)

process_event(st, event, clock) ==
    IF event.event_id \in NOISE_EVENT_IDS
    THEN {st}
    ELSE evaluate_rules({st}, 1, event,
                        is_system_account(event.user_name),
                        is_system_account(event.target_user_name), clock)

\* ------------------------------------------------------------------------
\* DetectionEngine.load_rules: the enabled rows, in the order of the query
\* ------------------------------------------------------------------------
RECURSIVE rows_by_id(_, _)
rows_by_id(table, ids) ==
    IF ids = {} THEN << >>
    ELSE LET lowest == CHOOSE x \in ids : \A y \in ids : x <= y
         IN << table[lowest] >> \o rows_by_id(table, ids \ {lowest})

load_rules(table) ==
    rows_by_id(table, { id \in DOMAIN table : table[id].enabled })

\* ------------------------------------------------------------------------
\* Actions
\* ------------------------------------------------------------------------
\* the wall clock advances
Tick ==
    /\ UNCHANGED << lastRaised, processed, response, history, savedQueries >>
    /\ now < MaxNow
    /\ now' = now + 1
    /\ UNCHANGED << rules, suppressions, trackers, alerts, events, engine,
                    nextEventPk, nextTrackerPk, nextAlertPk, lastEvent,
                    lastAlerts, pc, local >>

Store(w) ==
    [ trackers |-> trackers, alerts |-> alerts, rules |-> rules,
      cache |-> engine[w], nextTrackerPk |-> nextTrackerPk,
      nextAlertPk |-> nextAlertPk, ret |-> << >>, raised |-> FALSE ]

\* One event is stored and process_event_detection(event) is run to
\* completion by worker w; e carries the fields, age the age of its timestamp
ProcessEvent(w, e, age) ==
    /\ pc[w] = "idle"
    /\ LET event == [e EXCEPT !.pk = nextEventPk, !.timestamp = now - age]
       IN  /\ \E out \in process_event(Store(w), event, now) :
                 /\ trackers' = out.trackers
                 /\ alerts' = out.alerts
                 /\ rules' = out.rules
                 /\ engine' = [engine EXCEPT ![w] = out.cache]
                 /\ nextTrackerPk' = out.nextTrackerPk
                 /\ nextAlertPk' = out.nextAlertPk
                 /\ lastAlerts' = out.ret
                 /\ lastRaised' = out.raised
           /\ lastEvent' = event
           /\ events' = Append(events, event)
           /\ processed' = Append(processed, event.pk)
    /\ nextEventPk' = nextEventPk + 1
    /\ UNCHANGED << now, suppressions, pc, local, response, history, savedQueries >>

InitStores(ruleTable, suppressionTable) ==
    /\ now = 0
    /\ rules = ruleTable
    /\ suppressions = suppressionTable
    /\ trackers = {}
    /\ alerts = {}
    /\ events = << >>
    /\ engine = [w \in Workers |-> load_rules(ruleTable)]
    /\ nextEventPk = 1
    /\ nextTrackerPk = 1
    /\ nextAlertPk = 1
    /\ lastEvent = NoEvent
    /\ lastAlerts = << >>
    /\ pc = [w \in Workers |-> "idle"]
    /\ local = [w \in Workers |-> << >>]
    /\ lastRaised = FALSE
    /\ processed = << >>
    /\ response = NoResponse
    /\ history = << >>
    /\ savedQueries = << >>

\* ------------------------------------------------------------------------
\* Spec: one worker feeds the engine a batch within one minute; a THRESHOLD
\* rule on user_name and a THRESHOLD rule on hostname; timestamps recent,
\* out of order or delayed
\* ------------------------------------------------------------------------
FailedLogonRule ==
    Rule(1, "THRESHOLD", 2, 50,
         [DefaultLogic EXCEPT !.event_ids = {4625}, !.threshold = 2,
                              !.window_minutes = 1])

HostActivityRule ==
    Rule(2, "THRESHOLD", 0, 50,
         [DefaultLogic EXCEPT !.track_by = "hostname", !.threshold = 3,
                              !.window_minutes = 2])

EngineRules == (1 :> FailedLogonRule) @@ (2 :> HostActivityRule)

\* a batch delivered late: timestamps older than the tracker retention
DelayedAge == CLEANUP_MINUTES + 2

Ages == (0..MaxAge) \cup {DelayedAge}

EngineEvents ==
    { Event(id, 0, "h1", u, "", "ip1", "p1", "s1", "w1") :
        id \in {4625, 4798}, u \in {"alice", "bob"} }

Init == InitStores(EngineRules, {})

Ingest ==
    /\ nextEventPk <= MaxEvents
    /\ \E e \in EngineEvents, age \in Ages : ProcessEvent(1, e, age)

Next == Ingest

Spec == Init /\ [][Next]_vars

\* the step stored and processed an event
Processed == nextEventPk' = nextEventPk + 1

\* C6: a noise event returns no alert and leaves trackers, alerts, rule rows
\* and the engine's cached rules as they were
C6_NoiseLeavesStoresUnchanged ==
    [][ (Processed /\ lastEvent'.event_id \in NOISE_EVENT_IDS)
            => /\ lastAlerts' = << >>
               /\ UNCHANGED << trackers, alerts, rules, engine, nextTrackerPk, nextAlertPk >>
      ]_vars

C6_Witness ==
    /\ lastEvent.event_id \in NOISE_EVENT_IDS
    /\ lastEvent.user_name = "alice"
    /\ \E t \in trackers : t.entity_value = "alice"
    /\ \E t \in trackers : t.entity_type = "HOSTNAME"

SameKey(t1, t2) ==
    /\ t1.entity_type = t2.entity_type
    /\ t1.entity_value = t2.entity_value
    /\ t1.hostname = t2.hostname

\* C7: no two stored trackers of one key have windows that share an instant
C7_OneTrackerPerKeyAndTime ==
    \A t1, t2 \in trackers :
        (t1.pk # t2.pk /\ SameKey(t1, t2))
            => (t1.window_end < t2.window_start \/ t2.window_end < t1.window_start)

Abs(x) == IF x < 0 THEN -x ELSE x

\* the stored events that count for FailedLogonRule and the entity of event e
MatchingFor(e) ==
    { k \in 1..Len(events) : /\ events[k].event_id = 4625
                             /\ events[k].user_name = e.user_name
                             /\ events[k].hostname = e.hostname }

\* C8: when the event just processed is the threshold-th (2nd) failed logon
\* of its user and the two timestamps lie within window_minutes of one
\* another, the call returns an alert of FailedLogonRule, whatever the age
\* of the timestamps
C8_FiresWhateverTheAge ==
    ( /\ lastEvent.event_id = 4625
      /\ Cardinality(MatchingFor(lastEvent)) = FailedLogonRule.logic.threshold
      /\ \A k \in MatchingFor(lastEvent) :
            Abs(events[k].timestamp - lastEvent.timestamp)
                <= FailedLogonRule.logic.window_minutes )
        => \E k \in 1..Len(lastAlerts) : lastAlerts[k].rule = FailedLogonRule.id

\* ------------------------------------------------------------------------
\* SpecGate: the cooldown gate of create_alert, and suppression rules.  One
\* THRESHOLD rule with threshold 1, whose track_by is chosen at the start,
\* and one suppression rule for it that expires at minute 1.
\* ------------------------------------------------------------------------
TrackBys ==
    { "user_name", "target_user", "source_ip", "hostname", "process", "service",
      "workstation_name" }

GateRule(track_by) ==
    Rule(1, "THRESHOLD", 2, 50,
         [DefaultLogic EXCEPT !.track_by = track_by, !.event_ids = {4625},
                              !.threshold = 1, !.window_minutes = 1])

GateSuppression ==
    Suppression(1, 1, TRUE, Some(1), "hostname" :> {"H1"})

\* each user works on a host, address, process, service and workstation of
\* their own
GateEvent(user, target) ==
    IF user = "alice"
    THEN Event(4625, 0, "h1", user, target, "ip1", "p1", "s1", "w1")
    ELSE Event(4625, 0, "h2", user, target, "ip2", "p2", "s2", "w2")

GateEvents == { GateEvent(u, t) : u \in {"alice", "bob"}, t \in {"", "alice", "bob"} }

\* AlertSuppressionViewSet: an administrator enables or disables a row
SetSuppressionEnabled(id, enabled) ==
    /\ UNCHANGED << lastRaised, processed, response, history, savedQueries >>
    /\ \E s \in suppressions : s.id = id /\ s.enabled # enabled
    /\ suppressions' = { IF s.id = id THEN [s EXCEPT !.enabled = enabled] ELSE s
                         : s \in suppressions }
    /\ UNCHANGED << now, rules, trackers, alerts, events, engine, nextEventPk,
                    nextTrackerPk, nextAlertPk, lastEvent, lastAlerts, pc, local >>

InitGate == \E tb \in TrackBys : InitStores(1 :> GateRule(tb), {GateSuppression})

IngestGate ==
    /\ nextEventPk <= MaxTriggers
    /\ \E e \in GateEvents : ProcessEvent(1, e, 0)

AdminGate == \E b \in BOOLEAN : SetSuppressionEnabled(1, b)

NextGate == IngestGate \/ Tick \/ AdminGate

SpecGate == InitGate /\ [][NextGate]_vars

\* the rule the gate specification runs, as the engine caches it
TheRule == engine[1][1]

EntityOf(event) == get_entity_value(event, TheRule.logic.track_by)

\* the event the alert was raised on: the last of its matched events
TriggerOf(alert) == events[alert.matched_events[Len(alert.matched_events)]]

\* the step processed an event that satisfies the firing condition of
\* TheRule: the tracker it was counted in holds at least threshold events
Fired ==
    /\ Processed
    /\ \E t \in trackers' :
          /\ lastEvent'.pk = t.event_ids[Len(t.event_ids)]
          /\ t.entity_type = Upper(TheRule.logic.track_by)
          /\ get_total_count(t, TheRule.logic.event_ids) >= TheRule.logic.threshold

Alerted == \E k \in 1..Len(lastAlerts') : lastAlerts'[k].rule = TheRule.id

\* alerts of TheRule younger than its cooldown when the step begins
RecentAlerts ==
    { a \in alerts : a.rule = TheRule.id /\ now - a.triggered_at < TheRule.cooldown_minutes }

\* alerts of TheRule not older than its cooldown when the step begins
AlertsInCooldown ==
    { a \in alerts : a.rule = TheRule.id /\ now - a.triggered_at <= TheRule.cooldown_minutes }

\* C1: a firing event that an active suppression rule matches creates no
\* alert; with the suppression expired or disabled (and the rule not in
\* cooldown) the alert is created
C1_ActiveSuppressionBlocksAlert ==
    [][ Fired =>
          /\ check_suppression(suppressions, TheRule, lastEvent', now) => ~Alerted
          /\ (~check_suppression(suppressions, TheRule, lastEvent', now)
                /\ AlertsInCooldown = {}) => Alerted
      ]_vars

\* C2: a trigger less than cooldown_minutes after an alert of the same rule
\* and entity creates no alert, whatever the tracking key; a trigger with no
\* alert of the rule inside the cooldown creates one
C2_OneAlertPerCooldown ==
    [][ Fired =>
          /\ (\E a \in RecentAlerts : EntityOf(TriggerOf(a)) = EntityOf(lastEvent'))
                => ~Alerted
          /\ AlertsInCooldown = {} => Alerted
      ]_vars

\* C3: alerts of other entities never put an entity into cooldown: a trigger
\* whose entity has no alert of the rule inside the cooldown creates an alert
C3_CooldownIsPerEntity ==
    [][ ( /\ Fired
          /\ \A a \in AlertsInCooldown : EntityOf(TriggerOf(a)) # EntityOf(lastEvent') )
            => Alerted
      ]_vars

\* ------------------------------------------------------------------------
\* SpecThreshold: one THRESHOLD rule with threshold 5; a burst of failed
\* logons with recent timestamps, processed within one minute
\* ------------------------------------------------------------------------
ThresholdRule ==
    Rule(1, "THRESHOLD", 2, 50, [DefaultLogic EXCEPT !.event_ids = {4625}])

ThresholdEvents ==
    { Event(4625, 0, "h1", u, "", "ip1", "p1", "s1", "w1") : u \in {"alice", "bob"} }

InitThreshold == InitStores(1 :> ThresholdRule, {})

IngestThreshold ==
    /\ nextEventPk <= MaxBurst
    /\ \E e \in ThresholdEvents, age \in 0..MaxSkew : ProcessEvent(1, e, age)

NextThreshold == IngestThreshold

SpecThreshold == InitThreshold /\ [][NextThreshold]_vars

\* how many stored events, the latest included, carry the user and the
\* event id of the latest event
SameUserAndId ==
    Cardinality({ k \in 1..Len(events) : /\ events[k].user_name = lastEvent.user_name
                                         /\ events[k].event_id = lastEvent.event_id })

\* C4: with threshold 5, the first four matching events of an entity return
\* no alert and the fifth returns exactly one alert, of confidence 50
C4_FifthEventFires ==
    /\ SameUserAndId \in 1..4 => lastAlerts = << >>
    /\ SameUserAndId = 5 =>
          /\ Len(lastAlerts) = 1
          /\ lastAlerts[1].rule = ThresholdRule.id
          /\ lastAlerts[1].confidence = 50
          /\ lastAlerts[1].user_name = lastEvent.user_name

C4_Witness ==
    /\ SameUserAndId = 5
    /\ Len(lastAlerts) = 1
    /\ lastAlerts[1].confidence = 50
    /\ Cardinality(alerts) = 1

\* ------------------------------------------------------------------------
\* SpecBruteForce: the built-in rule "Brute Force Attack - Failed Logons
\* then Success" and the logons of one target user
\* ------------------------------------------------------------------------
BruteForceRule ==
    Rule(1, "SEQUENCE", 30, 75,
         [DefaultLogic EXCEPT
            !.track_by = "target_user", !.window_minutes = 10,
            !.exclude_system_accounts = TRUE,
            !.sequence = << [event_ids |-> {4625}, count |-> 5],
                            [event_ids |-> {4624}, count |-> 1] >>,
            !.track_unique = {"source_ip"}])

LogonEvents ==
    { Event(id, 0, "h1", "alice", "bob", "ip1", "p1", "s1", "w1") : id \in {4625, 4624} }

InitBruteForce == InitStores(1 :> BruteForceRule, {})

IngestLogon ==
    /\ nextEventPk <= MaxLogons
    /\ \E e \in LogonEvents : ProcessEvent(1, e, 0)

NextBruteForce == IngestLogon \/ Tick

SpecBruteForce == InitBruteForce /\ [][NextBruteForce]_vars

\* the failed logons stored for the target user of the latest event
FailedLogons ==
    Cardinality({ k \in 1..Len(events) : /\ events[k].event_id = 4625
                                         /\ events[k].target_user_name
                                                = lastEvent.target_user_name })

ReturnedAlerts == { lastAlerts[k] : k \in 1..Len(lastAlerts) }

\* C5: a 4624 after five 4625 of the target user returns an alert (the first
\* time: no alert of the rule is stored yet); a 4624 with fewer than five
\* 4625 counted returns none; a 4625 returns none, also after the alert
C5_BruteForceSequence ==
    /\ (lastEvent.event_id = 4624 /\ FailedLogons >= 5 /\ alerts \subseteq ReturnedAlerts)
          => /\ Len(lastAlerts) = 1
             /\ lastAlerts[1].rule = BruteForceRule.id
             /\ lastAlerts[1].confidence = 85
             /\ lastAlerts[1].target_user = lastEvent.target_user_name
    /\ (lastEvent.event_id = 4624 /\ FailedLogons < 5) => lastAlerts = << >>
    /\ lastEvent.event_id = 4625 => lastAlerts = << >>

\* a sixth 4625 processed after the alert
C5_Witness ==
    /\ lastEvent.event_id = 4625
    /\ FailedLogons = 6
    /\ Cardinality(alerts) = 1
    /\ \A a \in alerts : a.event_count = 6

\* ------------------------------------------------------------------------
\* SpecWorkers: two worker processes run process_event at the same time.
\* Every ORM call of evaluate_rule and create_alert is one step; the steps
\* of the two calls interleave.  Each process has its own engine.
\* ------------------------------------------------------------------------
WorkersRule ==
    Rule(1, "THRESHOLD", 2, 50,
         [DefaultLogic EXCEPT !.event_ids = {4625}, !.threshold = 1,
                              !.window_minutes = 1])

WorkersEvents ==
    { Event(4625, 0, "h1", u, "", "ip1", "p1", "s1", "w1") : u \in {"alice", "bob"} }

CurrentRule(w) == engine[w][local[w].i]

\* the call moves on to the next rule of the cache
NextRule(w) ==
    /\ local' = [local EXCEPT ![w].i = @ + 1, ![w].tracker = None]
    /\ pc' = [pc EXCEPT ![w] = "rule"]

\* process_event is entered with a newly stored event
Begin(w, e) ==
    /\ processed' = Append(processed, nextEventPk)
    /\ UNCHANGED << lastRaised, response, history, savedQueries >>
    /\ pc[w] = "idle"
    /\ LET event == [e EXCEPT !.pk = nextEventPk, !.timestamp = now]
       IN  /\ events' = Append(events, event)
           /\ local' = [local EXCEPT ![w] =
                  [ event |-> event, i |-> 1, tracker |-> None, confidence |-> 0,
                    ret |-> << >>,
                    is_system |-> is_system_account(event.user_name),
                    is_target_system |-> is_system_account(event.target_user_name) ]]
           /\ pc' = [pc EXCEPT ![w] =
                  IF event.event_id \in NOISE_EVENT_IDS THEN "return" ELSE "rule"]
    /\ nextEventPk' = nextEventPk + 1
    /\ UNCHANGED << now, rules, suppressions, trackers, alerts, engine,
                    nextTrackerPk, nextAlertPk, lastEvent, lastAlerts >>

\* the head of "for rule_id, rule in self.rules.items()" and the early
\* returns of evaluate_rule
RuleStep(w) ==
    /\ UNCHANGED << lastRaised, processed, response, history, savedQueries >>
    /\ pc[w] = "rule"
    /\ IF local[w].i > Len(engine[w])
       THEN /\ pc' = [pc EXCEPT ![w] = "return"]
            /\ local' = local
       ELSE IF rejected_before_tracker(CurrentRule(w), local[w].event,
                                       local[w].is_system, local[w].is_target_system)
       THEN NextRule(w)
       ELSE /\ pc' = [pc EXCEPT ![w] = "cleanup"]
            /\ local' = local
    /\ UNCHANGED << now, rules, suppressions, trackers, alerts, events, engine,
                    nextEventPk, nextTrackerPk, nextAlertPk, lastEvent, lastAlerts >>

\* return alerts
Return(w) ==
    /\ lastRaised' = FALSE
    /\ UNCHANGED << processed, response, history, savedQueries >>
    /\ pc[w] = "return"
    /\ lastEvent' = local[w].event
    /\ lastAlerts' = local[w].ret
    /\ pc' = [pc EXCEPT ![w] = "idle"]
    /\ local' = [local EXCEPT ![w] = << >>]
    /\ UNCHANGED << now, rules, suppressions, trackers, alerts, events, engine,
                    nextEventPk, nextTrackerPk, nextAlertPk >>

\* get_or_create_tracker: the cleanup delete
CleanupStep(w) ==
    /\ UNCHANGED << lastRaised, processed, response, history, savedQueries >>
    /\ pc[w] = "cleanup"
    /\ trackers' = cleanup_trackers(trackers, now)
    /\ pc' = [pc EXCEPT ![w] = "lookup"]
    /\ UNCHANGED << now, rules, suppressions, alerts, events, engine, nextEventPk,
                    nextTrackerPk, nextAlertPk, lastEvent, lastAlerts, local >>

\* get_or_create_tracker: the filter(...).first() query
LookupStep(w) ==
    /\ UNCHANGED << lastRaised, processed, response, history, savedQueries >>
    /\ pc[w] = "lookup"
    /\ LET logic == CurrentRule(w).logic
           event == local[w].event
           found == overlapping_trackers(trackers, Upper(logic.track_by),
                        get_entity_value(event, logic.track_by), event.hostname,
                        event.timestamp - logic.window_minutes)
       IN  IF found # {}
           THEN /\ \E t \in first(found) : local' = [local EXCEPT ![w].tracker = Some(t)]
                /\ pc' = [pc EXCEPT ![w] = "extend"]
           ELSE /\ local' = local
                /\ pc' = [pc EXCEPT ![w] = "create"]
    /\ UNCHANGED << now, rules, suppressions, trackers, alerts, events, engine,
                    nextEventPk, nextTrackerPk, nextAlertPk, lastEvent, lastAlerts >>

\* get_or_create_tracker: tracker.save(update_fields=['window_end']) when the
\* window is extended; the save raises when the row is gone, and
\* process_event goes on with the next rule
ExtendStep(w) ==
    /\ UNCHANGED << lastRaised, processed, response, history, savedQueries >>
    /\ pc[w] = "extend"
    /\ LET logic == CurrentRule(w).logic
           found == local[w].tracker[1]
           tracker == extend_window(found, local[w].event.timestamp, logic.window_minutes)
       IN  IF tracker = found
           THEN /\ pc' = [pc EXCEPT ![w] = "save"]
                /\ UNCHANGED << trackers, local >>
           ELSE IF \E t \in trackers : t.pk = tracker.pk
           THEN /\ trackers' = { IF t.pk = tracker.pk
                                 THEN [t EXCEPT !.window_end = tracker.window_end]
                                 ELSE t : t \in trackers }
                /\ local' = [local EXCEPT ![w].tracker = Some(tracker)]
                /\ pc' = [pc EXCEPT ![w] = "save"]
           ELSE /\ NextRule(w)
                /\ UNCHANGED trackers
    /\ UNCHANGED << now, rules, suppressions, alerts, events, engine, nextEventPk,
                    nextTrackerPk, nextAlertPk, lastEvent, lastAlerts >>

\* get_or_create_tracker: EntityTracker.objects.create(...)
CreateStep(w) ==
    /\ UNCHANGED << lastRaised, processed, response, history, savedQueries >>
    /\ pc[w] = "create"
    /\ LET logic == CurrentRule(w).logic
           event == local[w].event
           tracker == NewTracker(nextTrackerPk, Upper(logic.track_by),
                          get_entity_value(event, logic.track_by), event.hostname,
                          event.timestamp, logic.window_minutes)
       IN  /\ trackers' = trackers \cup {tracker}
           /\ local' = [local EXCEPT ![w].tracker = Some(tracker)]
    /\ nextTrackerPk' = nextTrackerPk + 1
    /\ pc' = [pc EXCEPT ![w] = "save"]
    /\ UNCHANGED << now, rules, suppressions, alerts, events, engine, nextEventPk,
                    nextAlertPk, lastEvent, lastAlerts >>

\* "Update tracker" on the object in memory, tracker.save(), and the rule
\* type's decision
SaveStep(w) ==
    /\ UNCHANGED << lastRaised, processed, response, history, savedQueries >>
    /\ pc[w] = "save"
    /\ LET rule == CurrentRule(w)
           tracker == update_tracker(local[w].tracker[1], rule, local[w].event)
           fires == dispatch(rule, local[w].event, tracker)
       IN  /\ trackers' = save_row(trackers, tracker)
           /\ IF fires = None \/ dispatch_raises(rule, local[w].event, tracker)
              THEN NextRule(w)
              ELSE /\ local' = [local EXCEPT ![w].tracker = Some(tracker),
                                             ![w].confidence = fires[1]]
                   /\ pc' = [pc EXCEPT ![w] = "cooldown"]
    /\ UNCHANGED << now, rules, suppressions, alerts, events, engine, nextEventPk,
                    nextTrackerPk, nextAlertPk, lastEvent, lastAlerts >>

\* create_alert: the cooldown query and the confidence test
CooldownStep(w) ==
    /\ UNCHANGED << lastRaised, processed, response, history, savedQueries >>
    /\ pc[w] = "cooldown"
    /\ LET rule == CurrentRule(w)
           tracker == local[w].tracker[1]
       IN  IF \/ check_cooldown(alerts, rule, tracker.entity_value, tracker.entity_type, now)
              \/ local[w].confidence < rule.min_confidence
           THEN NextRule(w)
           ELSE /\ pc' = [pc EXCEPT ![w] = "insert"]
                /\ local' = local
    /\ UNCHANGED << now, rules, suppressions, trackers, alerts, events, engine,
                    nextEventPk, nextTrackerPk, nextAlertPk, lastEvent, lastAlerts >>

\* create_alert: DetectionAlert.objects.create(...)
InsertStep(w) ==
    /\ UNCHANGED << lastRaised, processed, response, history, savedQueries >>
    /\ pc[w] = "insert"
    /\ LET alert == NewAlert(nextAlertPk, CurrentRule(w), local[w].event,
                             local[w].tracker[1], local[w].confidence, now)
       IN  /\ alerts' = alerts \cup {alert}
           /\ local' = [local EXCEPT ![w].ret = Append(@, alert)]
    /\ nextAlertPk' = nextAlertPk + 1
    /\ pc' = [pc EXCEPT ![w] = "count"]
    /\ UNCHANGED << now, rules, suppressions, trackers, events, engine, nextEventPk,
                    nextTrackerPk, lastEvent, lastAlerts >>

\* create_alert: "Update rule statistics"
CountStep(w) ==
    /\ UNCHANGED << lastRaised, processed, response, history, savedQueries >>
    /\ pc[w] = "count"
    /\ LET counted == [CurrentRule(w) EXCEPT !.total_alerts = @ + 1]
       IN  /\ engine' = [engine EXCEPT ![w][local[w].i] = counted]
           /\ rules' = save_total_alerts(rules, counted)
    /\ NextRule(w)
    /\ UNCHANGED << now, suppressions, trackers, alerts, events, nextEventPk,
                    nextTrackerPk, nextAlertPk, lastEvent, lastAlerts >>

InitWorkers == InitStores(1 :> WorkersRule, {})

BeginCall ==
    /\ nextEventPk <= MaxCalls
    /\ \E w \in Workers, e \in WorkersEvents : Begin(w, e)

WorkerStep ==
    \E w \in Workers :
        \/ RuleStep(w) \/ CleanupStep(w) \/ LookupStep(w) \/ ExtendStep(w)
        \/ CreateStep(w) \/ SaveStep(w) \/ CooldownStep(w) \/ InsertStep(w)
        \/ CountStep(w) \/ Return(w)

NextWorkers == BeginCall \/ WorkerStep

SpecWorkers == InitWorkers /\ [][NextWorkers]_vars

\* C9: no two alerts of one rule and one entity are persisted inside one
\* cooldown period
C9_OneAlertPerEntityUnderConcurrency ==
    \A a1, a2 \in alerts :
        ( /\ a1.pk # a2.pk
          /\ a1.rule = a2.rule
          /\ EntityOf(TriggerOf(a1)) = EntityOf(TriggerOf(a2)) )
            => Abs(a1.triggered_at - a2.triggered_at) >= TheRule.cooldown_minutes

AllIdle == \A w \in Workers : pc[w] = "idle"

EventsOfKey(user, host) ==
    { k \in 1..Len(events) : events[k].user_name = user /\ events[k].hostname = host }

\* C10: once both calls have returned, each key that received events has
\* exactly one tracker and its total count is the number of those events
C10_NoLostIncrement ==
    AllIdle =>
        \A k \in 1..Len(events) :
            LET user == events[k].user_name
                host == events[k].hostname
                mine == { t \in trackers : /\ t.entity_type = "USER_NAME"
                                           /\ t.entity_value = user
                                           /\ t.hostname = host }
            IN  /\ Cardinality(mine) = 1
                /\ \A t \in mine :
                      get_total_count_all(t) = Cardinality(EventsOfKey(user, host))

\* ------------------------------------------------------------------------
\* SpecIsolation: three enabled rules, the second of which raises in
\* _evaluate_pattern (a number in a pattern list, as in the built-in rule
\* "Pass-the-Hash Detection") whenever the event carries the pattern's field
\* ------------------------------------------------------------------------
HostAlwaysRule ==
    Rule(1, "THRESHOLD", 0, 50,
         [DefaultLogic EXCEPT !.track_by = "hostname", !.threshold = 1,
                              !.window_minutes = 1])

NumberPatternRule ==
    Rule(2, "PATTERN", 0, 70,
         [DefaultLogic EXCEPT !.track_by = "source_ip", !.window_minutes = 1,
                              !.patterns = { [field |-> "workstation_name",
                                              list |-> << Num(9) >>] }])

UserPairRule ==
    Rule(3, "THRESHOLD", 0, 50,
         [DefaultLogic EXCEPT !.event_ids = {4625}, !.threshold = 2,
                              !.window_minutes = 1])

IsolationRules == 1 :> HostAlwaysRule @@ 2 :> NumberPatternRule @@ 3 :> UserPairRule

IsolationEvents ==
    { Event(id, 0, "h1", u, "", "ip1", "p1", "s1", ws) :
        id \in {4625, 4624}, u \in {"alice", "bob"}, ws \in {"w1", ""} }

InitIsolation == InitStores(IsolationRules, {})

IngestIsolation ==
    /\ nextEventPk <= MaxEvents
    /\ \E e \in IsolationEvents : ProcessEvent(1, e, 0)

NextIsolation == IngestIsolation

SpecIsolation == InitIsolation /\ [][NextIsolation]_vars

\* the trackers of the rule's key that counted the event
CountedBy(table, rule, event) ==
    { t \in table : /\ t.entity_type = Upper(rule.logic.track_by)
                    /\ t.entity_value = get_entity_value(event, rule.logic.track_by)
                    /\ t.hostname = event.hostname
                    /\ \E k \in 1..Len(t.event_ids) : t.event_ids[k] = event.pk }

\* the rule reaches its evaluator for the event
Applies(rule, event) ==
    ~rejected_before_tracker(rule, event, is_system_account(event.user_name),
                             is_system_account(event.target_user_name))

\* C11: when a rule raises, process_event raises nothing, every other rule
\* that applies to the event has counted it, and the returned alerts are
\* those of the rules that did not fail and whose condition is met
C11_RuleFailureIsIsolated ==
    [][ Processed =>
          /\ ~lastRaised'
          /\ \A i \in 1..Len(engine[1]) :
                Applies(engine[1][i], lastEvent')
                    => CountedBy(trackers', engine[1][i], lastEvent') # {}
          /\ { lastAlerts'[k].rule : k \in 1..Len(lastAlerts') }
                = { engine[1][i].id : i \in
                      { j \in 1..Len(engine[1]) :
                          /\ Applies(engine[1][j], lastEvent')
                          /\ \E t \in CountedBy(trackers', engine[1][j], lastEvent') :
                                /\ ~dispatch_raises(engine[1][j], lastEvent', t)
                                /\ dispatch(engine[1][j], lastEvent', t) # None
                                /\ dispatch(engine[1][j], lastEvent', t)[1]
                                       >= engine[1][j].min_confidence } }
      ]_vars

\* the second rule raised on the latest event and the first and the third
\* rule returned their alerts
C11_Witness ==
    /\ pattern_raises(NumberPatternRule, lastEvent)
    /\ lastEvent.pk > 0
    /\ { lastAlerts[k].rule : k \in 1..Len(lastAlerts) } = {1, 3}

\* ------------------------------------------------------------------------
\* The ingestion endpoints (apps/events/views)
\* ------------------------------------------------------------------------
MaxBatch == 2

\* the rows with the primary keys the insert gives them, from nextPk on
WithPks(rows, nextPk, clock) ==
    [ k \in 1..Len(rows) |-> [rows[k] EXCEPT !.pk = nextPk + k - 1, !.timestamp = clock] ]

\* variant of the insert in which the rows sent before the failure stay
bulk_create_partial(table, rows, fails) ==
    IF fails
    THEN [ table |-> Append(table, rows[1]), created |-> << >>, raised |-> TRUE ]
    ELSE [ table |-> table \o rows, created |-> rows, raised |-> FALSE ]

\* with transaction.atomic(): SecurityEvent.objects.bulk_create(...); when a
\* statement of the insert fails the transaction is rolled back
bulk_create(table, rows, fails) ==
    IF fails
    THEN [ table |-> table, created |-> << >>, raised |-> TRUE ]
    ELSE [ table |-> table \o rows, created |-> rows, raised |-> FALSE ]

\* "Run detection engine on ingested events": the loop over created_events
\* from position k on; an exception of process_event_detection ends the loop
RECURSIVE run_detection(_, _, _, _)
run_detection(sts, created, k, clock) ==
    IF k > Len(created) THEN sts
    ELSE run_detection(
            UNION { IF st.raised THEN {st}
                    ELSE { [out EXCEPT !.alerts_created = @ + Len(out.ret),
                                       !.passed = Append(@, created[k].pk)]
                           : out \in process_event([st EXCEPT !.ret = << >>],
                                                   created[k], clock) }
                    : st \in sts },
            created, k + 1, clock)

\* EventIngestView.post
IngestBatch(w, batch, fails) ==
    /\ pc[w] = "idle"
    /\ LET rows == WithPks(batch, nextEventPk, now)
           stored == bulk_create(events, rows, fails)
       IN  /\ events' = stored.table
           /\ IF stored.raised
              THEN /\ response' = [endpoint |-> "ingest", status |-> 500]
                   /\ UNCHANGED << trackers, alerts, rules, engine, nextTrackerPk,
                                   nextAlertPk, lastAlerts, lastRaised, lastEvent,
                                   processed, nextEventPk >>
              ELSE /\ \E out \in run_detection(
                                    { Store(w) @@ [alerts_created |-> 0, passed |-> << >>] },
                                    stored.created, 1, now) :
                         /\ trackers' = out.trackers
                         /\ alerts' = out.alerts
                         /\ rules' = out.rules
                         /\ engine' = [engine EXCEPT ![w] = out.cache]
                         /\ nextTrackerPk' = out.nextTrackerPk
                         /\ nextAlertPk' = out.nextAlertPk
                         /\ lastAlerts' = out.ret
                         /\ lastRaised' = out.raised
                         /\ processed' = processed \o out.passed
                         /\ response' = [ endpoint |-> "ingest", status |-> 201,
                                          count |-> Len(stored.created),
                                          alerts_generated |-> out.alerts_created ]
                   /\ lastEvent' = rows[Len(rows)]
                   /\ nextEventPk' = nextEventPk + Len(rows)
    /\ UNCHANGED << now, suppressions, pc, local, history, savedQueries >>

\* SingleEventIngestView.post
SingleIngest(e) ==
    /\ events' = Append(events, [e EXCEPT !.pk = nextEventPk, !.timestamp = now])
    /\ nextEventPk' = nextEventPk + 1
    /\ response' = [endpoint |-> "ingest-single", status |-> 201, event_id |-> nextEventPk]
    /\ UNCHANGED << now, rules, suppressions, trackers, alerts, engine, nextTrackerPk,
                    nextAlertPk, lastEvent, lastAlerts, pc, local, lastRaised,
                    processed, history, savedQueries >>

\* ------------------------------------------------------------------------
\* SpecIngest: agents post batches and single events; an insert may fail
\* ------------------------------------------------------------------------
IngestRules == 1 :> HostAlwaysRule @@ 2 :> UserPairRule

IngestEvents ==
    { Event(id, 0, "h1", u, "", "ip1", "p1", "s1", "w1") :
        id \in {4625, 4798}, u \in {"alice", "bob"} }

Batches ==
    UNION { [1..n -> IngestEvents] : n \in 1..MaxBatch }

InitIngest == InitStores(IngestRules, {})

PostBatch ==
    \E batch \in Batches, fails \in BOOLEAN :
        /\ nextEventPk + Len(batch) - 1 <= MaxEvents
        /\ IngestBatch(1, batch, fails)

PostSingle ==
    /\ nextEventPk <= MaxEvents
    /\ \E e \in IngestEvents : SingleIngest(e)

NextIngest == PostBatch \/ PostSingle

SpecIngest == InitIngest /\ [][NextIngest]_vars

\* C19: every stored event has been passed to process_event_detection once,
\* in the order of storage, and a batch response counts the alerts created
C19_EveryStoredEventIsProcessed ==
    [][ events' # events =>
          /\ processed' = [ k \in 1..Len(events') |-> events'[k].pk ]
          /\ response'.endpoint = "ingest" =>
                response'.alerts_generated = Cardinality(alerts' \ alerts)
      ]_vars

\* C20: a batch whose insert fails stores nothing, runs no detection, leaves
\* trackers, alerts and rule counters alone and is answered with an error
C20_FailedInsertChangesNothing ==
    [][ (response'.status = 500 /\ response'.endpoint = "ingest")
            => UNCHANGED << events, processed, trackers, alerts, rules, engine >>
      ]_vars

\* a failed batch after events have been stored and alerts created
C20_Witness ==
    /\ response.status = 500
    /\ Len(events) >= 2
    /\ Len(processed) >= 1
    /\ alerts # {}

\* ------------------------------------------------------------------------
\* PQL (apps/query/pql_engine).  A query text is a sequence of characters.
\* ------------------------------------------------------------------------
Digits == <<"0", "1", "2", "3", "4", "5", "6", "7", "8", "9">>

DigitSet == { Digits[i] : i \in 1..10 }

DigitValue(c) == (CHOOSE i \in 1..10 : Digits[i] = c) - 1

LetterSet == { UpperLetters[i] : i \in 1..26 } \cup { LowerLetters[i] : i \in 1..26 }

\* str.isspace
SpaceSet == {" ", "\t", "\n"}

UpperChar(c) ==
    IF \E i \in 1..26 : LowerLetters[i] = c
    THEN UpperLetters[CHOOSE i \in 1..26 : LowerLetters[i] = c]
    ELSE c

UpperChars(cs) == [i \in 1..Len(cs) |-> UpperChar(cs[i])]

\* the words of a text joined by single spaces
RECURSIVE Join(_)
Join(words) ==
    IF words = << >> THEN << >>
    ELSE IF Len(words) = 1 THEN Chars(words[1])
    ELSE Chars(words[1]) \o <<" ">> \o Join(Tail(words))

\* Python's query[a:b] with 1-based a and exclusive b
Slice(cs, a, b) == SubSeq(cs, a, Min(b - 1, Len(cs)))

KEYWORDS ==
    { Chars(k) : k \in
        { "SEARCH", "HUNT", "AGGREGATE", "TIMELINE", "CORRELATE",
          "WHERE", "AND", "OR", "NOT", "IN", "CONTAINS", "LIKE",
          "ORDER", "BY", "ASC", "DESC", "LIMIT", "OFFSET",
          "GROUP", "HAVING", "COUNT", "SUM", "AVG", "MIN", "MAX",
          "DISTINCT", "TOP", "WITHIN", "FROM", "TO", "AS",
          "NOW", "TRUE", "FALSE", "NULL" } }

\* a token (type, value); the value is a character sequence, empty for EOF
Token(type, value) == [type |-> type, value |-> value]

\* the first position from pos on whose character is not in the class
RECURSIVE scan_while(_, _, _)
scan_while(query, pos, class) ==
    IF pos <= Len(query) /\ query[pos] \in class
    THEN scan_while(query, pos + 1, class)
    ELSE pos

\* PQLLexer._read_string: the loop to the closing quote
RECURSIVE scan_string(_, _, _)
scan_string(query, pos, quote_char) ==
    IF pos <= Len(query) /\ query[pos] # quote_char
    THEN scan_string(query, IF query[pos] = "\\" THEN pos + 2 ELSE pos + 1, quote_char)
    ELSE pos

read_string(query, pos) ==
    LET start == pos + 1
        end == scan_string(query, start, query[pos])
    IN  [token |-> Token("STRING", Slice(query, start, end)), pos |-> end + 1]

read_number(query, pos) ==
    LET begin == IF query[pos] = "-" THEN pos + 1 ELSE pos
        digits == scan_while(query, begin, DigitSet \cup {"."})
        end == IF digits <= Len(query) /\ query[digits] \in {"h", "m", "s", "d", "w"}
               THEN digits + 1 ELSE digits
    IN  [token |-> Token("NUMBER", Slice(query, pos, end)), pos |-> end]

read_identifier(query, pos) ==
    LET end == scan_while(query, pos, LetterSet \cup DigitSet \cup {"_"})
        value == Slice(query, pos, end)
        upper_value == UpperChars(value)
    IN  [token |-> IF upper_value \in KEYWORDS
                   THEN IF upper_value \in {<<"A", "N", "D">>, <<"O", "R">>, <<"N", "O", "T">>}
                        THEN Token("LOGICAL", upper_value)
                        ELSE Token("KEYWORD", upper_value)
                   ELSE Token("IDENTIFIER", value),
         pos |-> end]

read_comparison(query, pos) ==
    LET end == scan_while(query, pos, {"=", "!", "<", ">"})
    IN  [token |-> Token("COMPARISON", Slice(query, pos, end)), pos |-> end]

\* PQLLexer.tokenize from position pos on
RECURSIVE lex(_, _, _)
lex(query, pos, tokens) ==
    LET p == scan_while(query, pos, SpaceSet)
        char == query[p]
        \* the loop goes on after the token read; a character of no class is skipped
        continue(read) ==
            lex(query, read.pos,
                IF read.token.type = "SKIP" THEN tokens ELSE Append(tokens, read.token))
    IN  IF p > Len(query) THEN Append(tokens, Token("EOF", << >>))
        ELSE continue(
                IF char \in {"\"", "'"} THEN read_string(query, p)
                ELSE IF \/ char \in DigitSet
                        \/ char = "-" /\ p + 1 <= Len(query) /\ query[p + 1] \in DigitSet
                THEN read_number(query, p)
                ELSE IF char \in LetterSet \/ char = "_" THEN read_identifier(query, p)
                ELSE IF char \in {"=", "!", "<", ">"} THEN read_comparison(query, p)
                ELSE IF char = "|" THEN [token |-> Token("PIPE", <<"|">>), pos |-> p + 1]
                ELSE IF char = "," THEN [token |-> Token("COMMA", <<",">>), pos |-> p + 1]
                ELSE IF char = "(" THEN [token |-> Token("LPAREN", <<"(">>), pos |-> p + 1]
                ELSE IF char = ")" THEN [token |-> Token("RPAREN", <<")">>), pos |-> p + 1]
                ELSE [token |-> Token("SKIP", << >>), pos |-> p + 1])

tokenize(query) == lex(query, 1, << >>)

\* ------------------------------------------------------------------------
\* PQLParser.  Every parsing operator returns the error raised ("" when
\* none), the position after the tokens it consumed and what it parsed.  A
\* clause operator takes the result of the clause before it and hands on a
\* failure unchanged, as the exception leaves parse_search.
\* ------------------------------------------------------------------------
NoToken == Token("EOF", << >>)

current_token(tokens, pos) == IF pos <= Len(tokens) THEN tokens[pos] ELSE NoToken

\* expected_type is "" and expected_value << >> where the code passes None
consume(tokens, pos, expected_type, expected_value) ==
    LET token == current_token(tokens, pos)
    IN  IF expected_type # "" /\ token.type # expected_type
        THEN [err |-> "PQLSyntaxError", pos |-> pos, token |-> token]
        ELSE IF expected_value # << >> /\ token.value # expected_value
        THEN [err |-> "PQLSyntaxError", pos |-> pos, token |-> token]
        ELSE [err |-> "", pos |-> pos + 1, token |-> token]

\* token[1] == word, the word given as its characters
Is(token, word) == token.type # "EOF" /\ token.value = word

\* int(text) of an optional '-' and decimal digits
RECURSIVE digits_value(_, _)
digits_value(cs, acc) ==
    IF cs = << >> THEN acc ELSE digits_value(Tail(cs), 10 * acc + DigitValue(cs[1]))

is_int_text(cs) ==
    LET body == IF cs # << >> /\ cs[1] = "-" THEN Tail(cs) ELSE cs
    IN  body # << >> /\ \A i \in 1..Len(body) : body[i] \in DigitSet

to_int(cs) == IF cs[1] = "-" THEN 0 - digits_value(Tail(cs), 0) ELSE digits_value(cs, 0)

\* the values a condition can carry
StrValue(cs) == [kind |-> "str", s |-> cs, n |-> 0, items |-> << >>]

IntValue(n) == [kind |-> "int", s |-> << >>, n |-> n, items |-> << >>]

FloatValue(cs) == [kind |-> "float", s |-> cs, n |-> 0, items |-> << >>]

\* a datetime n seconds before timezone.now()
TimeValue(n) == [kind |-> "datetime", s |-> << >>, n |-> n, items |-> << >>]

BoolValue(b) == [kind |-> "bool", s |-> << >>, n |-> IF b THEN 1 ELSE 0, items |-> << >>]

NullValue == [kind |-> "null", s |-> << >>, n |-> 0, items |-> << >>]

ListValue(values) == [kind |-> "list", s |-> << >>, n |-> 0, items |-> values]

UnitSeconds(unit) ==
    CASE unit = "s" -> 1
      [] unit = "m" -> 60
      [] unit = "h" -> 3600
      [] unit = "d" -> 86400
      [] unit = "w" -> 604800

\* a variant that reads the amount in minutes whatever the suffix
parse_time_value_minutes(value) ==
    IF Len(value) < 2 THEN TimeValue(0)
    ELSE IF ~is_int_text(SubSeq(value, 1, Len(value) - 1)) THEN TimeValue(0)
    ELSE TimeValue(to_int(SubSeq(value, 1, Len(value) - 1)) * 60)

parse_time_value(value) ==
    IF Len(value) < 2 THEN TimeValue(0)
    ELSE LET unit == value[Len(value)]
             amount == SubSeq(value, 1, Len(value) - 1)
         IN  IF ~is_int_text(amount) THEN TimeValue(0)
             ELSE IF unit \in {"s", "m", "h", "d", "w"}
             THEN TimeValue(to_int(amount) * UnitSeconds(unit))
             ELSE TimeValue(0)

_parse_value(tokens, pos) ==
    LET token == current_token(tokens, pos)
        value == token.value
    IN  IF token.type = "STRING" THEN [err |-> "", pos |-> pos + 1, value |-> StrValue(value)]
        ELSE IF token.type = "NUMBER"
        THEN IF Len(value) > 0 /\ value[Len(value)] \in {"h", "m", "s", "d", "w"}
             THEN [err |-> "", pos |-> pos + 1, value |-> parse_time_value(value)]
             ELSE IF \A i \in 1..Len(value) : value[i] # "."
             THEN [err |-> "", pos |-> pos + 1, value |-> IntValue(to_int(value))]
             ELSE IF Cardinality({ i \in 1..Len(value) : value[i] = "." }) = 1
             THEN [err |-> "", pos |-> pos + 1, value |-> FloatValue(value)]
             ELSE [err |-> "PQLSyntaxError", pos |-> pos + 1, value |-> NullValue]
        ELSE IF token.type = "IDENTIFIER"
        THEN [err |-> "", pos |-> pos + 1, value |-> StrValue(value)]
        ELSE IF Is(token, <<"N", "O", "W">>)
        THEN LET c == consume(tokens, pos, "KEYWORD", <<"N", "O", "W">>)
             IN  [err |-> c.err, pos |-> c.pos, value |-> TimeValue(0)]
        ELSE IF Is(token, <<"T", "R", "U", "E">>) \/ Is(token, <<"F", "A", "L", "S", "E">>)
        THEN LET c == consume(tokens, pos, "KEYWORD", << >>)
             IN  [err |-> c.err, pos |-> c.pos, value |-> BoolValue(value = <<"T", "R", "U", "E">>)]
        ELSE IF Is(token, <<"N", "U", "L", "L">>)
        THEN LET c == consume(tokens, pos, "KEYWORD", << >>)
             IN  [err |-> c.err, pos |-> c.pos, value |-> NullValue]
        ELSE [err |-> "PQLSyntaxError", pos |-> pos, value |-> NullValue]

\* an element of the conditions list: a condition or a {'logical': op} marker
Condition(field, operator, value) == [logical |-> << >>, field |-> field, operator |-> operator, value |-> value]

Logical(op) == [logical |-> op, field |-> << >>, operator |-> << >>, value |-> NullValue]

\* the value list of IN ( ... ), up to the closing parenthesis
RECURSIVE parse_in_values(_, _, _)
parse_in_values(tokens, pos, values) ==
    LET after(v) ==
            IF v.err # "" THEN [err |-> v.err, pos |-> v.pos, values |-> values]
            ELSE parse_in_values(tokens,
                                 IF current_token(tokens, v.pos).type = "COMMA"
                                 THEN v.pos + 1 ELSE v.pos,
                                 Append(values, v.value))
    IN  IF current_token(tokens, pos).type = "RPAREN"
        THEN [err |-> "", pos |-> pos, values |-> values]
        ELSE after(_parse_value(tokens, pos))

NoCondition == Condition(<< >>, << >>, NullValue)

\* the operator keyword branches of parse_condition share this shape
keyword_condition(tokens, pos, field, word) ==
    LET c == consume(tokens, pos, "KEYWORD", word)
        made(v) == [err |-> v.err, pos |-> v.pos, condition |-> Condition(field, word, v.value)]
    IN  IF c.err # "" THEN [err |-> c.err, pos |-> c.pos, condition |-> NoCondition]
        ELSE made(_parse_value(tokens, c.pos))

parse_condition(tokens, pos) ==
    LET named(f) ==
            LET field == f.token.value
                token == current_token(tokens, f.pos)
                failed(c) == [err |-> c.err, pos |-> c.pos, condition |-> NoCondition]
                compared(v) ==
                    [err |-> v.err, pos |-> v.pos, condition |-> Condition(field, token.value, v.value)]
                closed(vs, r) ==
                    [err |-> r.err, pos |-> r.pos,
                     condition |-> Condition(field, <<"I", "N">>, ListValue(vs.values))]
                listed(vs) ==
                    IF vs.err # "" THEN failed(vs)
                    ELSE closed(vs, consume(tokens, vs.pos, "RPAREN", << >>))
                opened(l) ==
                    IF l.err # "" THEN failed(l)
                    ELSE listed(parse_in_values(tokens, l.pos, << >>))
                keyed(k) ==
                    IF k.err # "" THEN failed(k)
                    ELSE opened(consume(tokens, k.pos, "LPAREN", << >>))
            IN  IF f.err # "" THEN failed(f)
                ELSE IF token.type = "COMPARISON" THEN compared(_parse_value(tokens, f.pos + 1))
                ELSE IF Is(token, <<"C", "O", "N", "T", "A", "I", "N", "S">>)
                THEN keyword_condition(tokens, f.pos, field, <<"C", "O", "N", "T", "A", "I", "N", "S">>)
                ELSE IF Is(token, <<"L", "I", "K", "E">>) THEN keyword_condition(tokens, f.pos, field, <<"L", "I", "K", "E">>)
                ELSE IF Is(token, <<"I", "N">>) THEN keyed(consume(tokens, f.pos, "KEYWORD", <<"I", "N">>))
                ELSE [err |-> "PQLSyntaxError", pos |-> f.pos, condition |-> NoCondition]
    IN  named(consume(tokens, pos, "IDENTIFIER", << >>))

RECURSIVE parse_conditions(_, _, _)
parse_conditions(tokens, pos, conditions) ==
    LET after(c) ==
            LET token == current_token(tokens, c.pos)
            IN  IF c.err # "" THEN [err |-> c.err, pos |-> c.pos, conditions |-> conditions]
                ELSE IF token.type = "LOGICAL"
                THEN parse_conditions(tokens, c.pos + 1,
                                      conditions \o <<c.condition, Logical(token.value)>>)
                ELSE [err |-> "", pos |-> c.pos, conditions |-> Append(conditions, c.condition)]
    IN  after(parse_condition(tokens, pos))

\* The AST dictionary.  A key a command does not set is None ('limit' of
\* AGGREGATE, 'order_by' of HUNT, ...).
Ast(command) ==
    [command |-> command, source |-> <<"e", "v", "e", "n", "t", "s">>, conditions |-> << >>,
     order_by |-> None, order_dir |-> None, limit |-> None, offset |-> None,
     group_by |-> None, aggregations |-> << >>, within |-> None]

NoAst == Ast("")

Failed(err, pos) == [err |-> err, pos |-> pos, ast |-> NoAst]

Parsed(pos, ast) == [err |-> "", pos |-> pos, ast |-> ast]

\* the command keyword, consumed as k, and the optional source or target
parse_source(tokens, k, ast) ==
    IF k.err # "" THEN Failed(k.err, k.pos)
    ELSE IF current_token(tokens, k.pos).type = "IDENTIFIER"
    THEN Parsed(k.pos + 1, [ast EXCEPT !.source = current_token(tokens, k.pos).value])
    ELSE Parsed(k.pos, ast)

\* if current_token()[1] == 'WHERE': conditions = parse_conditions()
parse_where(tokens, prev) ==
    LET k == consume(tokens, prev.pos, "KEYWORD", <<"W", "H", "E", "R", "E">>)
        made(c) ==
            IF c.err # "" THEN Failed(c.err, c.pos)
            ELSE Parsed(c.pos, [prev.ast EXCEPT !.conditions = c.conditions])
    IN  IF prev.err # "" THEN prev
        ELSE IF Is(current_token(tokens, prev.pos), <<"W", "H", "E", "R", "E">>)
        THEN IF k.err # "" THEN Failed(k.err, k.pos)
             ELSE made(parse_conditions(tokens, k.pos, << >>))
        ELSE prev

\* if current_token()[1] == 'LIMIT': limit = int(consume(NUMBER)[1])
parse_limit(tokens, prev) ==
    LET k == consume(tokens, prev.pos, "KEYWORD", <<"L", "I", "M", "I", "T">>)
        made(n) ==
            IF n.err # "" THEN Failed(n.err, n.pos)
            ELSE IF ~is_int_text(n.token.value) THEN Failed("ValueError", n.pos)
            ELSE Parsed(n.pos, [prev.ast EXCEPT !.limit = Some(to_int(n.token.value))])
    IN  IF prev.err # "" THEN prev
        ELSE IF Is(current_token(tokens, prev.pos), <<"L", "I", "M", "I", "T">>)
        THEN IF k.err # "" THEN Failed(k.err, k.pos)
             ELSE made(consume(tokens, k.pos, "NUMBER", << >>))
        ELSE prev

\* <word> BY <identifier> setting ast[key]; word is << >> for a bare BY
parse_by(tokens, prev, word, key) ==
    LET named(f) ==
            IF f.err # "" THEN Failed(f.err, f.pos)
            ELSE Parsed(f.pos, [prev.ast EXCEPT ![key] = Some(f.token.value)])
        by(b) ==
            IF b.err # "" THEN Failed(b.err, b.pos)
            ELSE named(consume(tokens, b.pos, "IDENTIFIER", << >>))
        worded(w) ==
            IF w.err # "" THEN Failed(w.err, w.pos)
            ELSE by(consume(tokens, w.pos, "KEYWORD", <<"B", "Y">>))
    IN  IF prev.err # "" THEN prev
        ELSE IF Is(current_token(tokens, prev.pos), IF word = << >> THEN <<"B", "Y">> ELSE word)
        THEN worded(IF word = << >> THEN [err |-> "", pos |-> prev.pos]
                    ELSE consume(tokens, prev.pos, "KEYWORD", word))
        ELSE prev

\* inside the ORDER BY block, so only after an order_by was parsed:
\* if current_token()[1] in ('ASC', 'DESC'): order_dir = consume(KEYWORD)[1]
parse_order_dir(tokens, prev) ==
    LET token == current_token(tokens, prev.pos)
        d == consume(tokens, prev.pos, "KEYWORD", << >>)
    IN  IF prev.err # "" THEN prev
        ELSE IF prev.ast.order_by # None /\ (Is(token, <<"A", "S", "C">>) \/ Is(token, <<"D", "E", "S", "C">>))
        THEN IF d.err # "" THEN Failed(d.err, d.pos)
             ELSE Parsed(d.pos, [prev.ast EXCEPT !.order_dir = Some(d.token.value)])
        ELSE prev

parse_search(tokens, pos) ==
    parse_limit(tokens,
      parse_order_dir(tokens,
        parse_by(tokens,
          parse_where(tokens,
            parse_source(tokens, consume(tokens, pos, "KEYWORD", <<"S", "E", "A", "R", "C", "H">>),
                         [Ast("SEARCH") EXCEPT !.order_dir = Some(<<"D", "E", "S", "C">>),
                                               !.limit = Some(100), !.offset = Some(0)])),
          <<"O", "R", "D", "E", "R">>, "order_by")))

parse_hunt(tokens, pos) ==
    parse_limit(tokens,
      parse_by(tokens,
        parse_where(tokens,
          parse_source(tokens, consume(tokens, pos, "KEYWORD", <<"H", "U", "N", "T">>),
                       [Ast("HUNT") EXCEPT !.limit = Some(500)])),
        <<"G", "R", "O", "U", "P">>, "group_by"))

\* if current_token()[1] in ('COUNT', ...): aggregations.append({'function': func})
parse_function(tokens, prev) ==
    LET token == current_token(tokens, prev.pos)
        c == consume(tokens, prev.pos, "KEYWORD", << >>)
    IN  IF prev.err # "" THEN prev
        ELSE IF \E f \in {<<"C", "O", "U", "N", "T">>, <<"S", "U", "M">>, <<"A", "V", "G">>, <<"M", "I", "N">>, <<"M", "A", "X">>} : Is(token, f)
        THEN IF c.err # "" THEN Failed(c.err, c.pos)
             ELSE Parsed(c.pos, [prev.ast EXCEPT !.aggregations = Append(@, c.token.value)])
        ELSE prev

\* if current_token()[1] == 'WITHIN': within = _parse_value()
parse_within(tokens, prev) ==
    LET k == consume(tokens, prev.pos, "KEYWORD", <<"W", "I", "T", "H", "I", "N">>)
        made(v) ==
            IF v.err # "" THEN Failed(v.err, v.pos)
            ELSE Parsed(v.pos, [prev.ast EXCEPT !.within = Some(v.value)])
    IN  IF prev.err # "" THEN prev
        ELSE IF Is(current_token(tokens, prev.pos), <<"W", "I", "T", "H", "I", "N">>)
        THEN IF k.err # "" THEN Failed(k.err, k.pos)
             ELSE made(_parse_value(tokens, k.pos))
        ELSE prev

parse_aggregate(tokens, pos) ==
    parse_within(tokens,
      parse_where(tokens,
        parse_function(tokens,
          parse_by(tokens,
            parse_source(tokens, consume(tokens, pos, "KEYWORD", <<"A", "G", "G", "R", "E", "G", "A", "T", "E">>), Ast("AGGREGATE")),
            << >>, "group_by"))))

parse(tokens) ==
    LET token == current_token(tokens, 1)
    IN  IF token.type = "KEYWORD" /\ Is(token, <<"S", "E", "A", "R", "C", "H">>) THEN parse_search(tokens, 1)
        ELSE IF token.type = "KEYWORD" /\ Is(token, <<"H", "U", "N", "T">>) THEN parse_hunt(tokens, 1)
        ELSE IF token.type = "KEYWORD" /\ Is(token, <<"A", "G", "G", "R", "E", "G", "A", "T", "E">>) THEN parse_aggregate(tokens, 1)
        ELSE Failed("PQLSyntaxError", 1)

\* ------------------------------------------------------------------------
\* PQLExecutor
\* ------------------------------------------------------------------------
FIELD_MAP ==
    {
      <<"event_id", "event_id">>, <<"timestamp", "timestamp">>,
      <<"hostname", "hostname">>, <<"channel", "channel">>, <<"severity", "severity">>,
      <<"user_name", "user_name">>, <<"user", "user_name">>,
      <<"source_ip", "source_ip">>, <<"dest_ip", "destination_ip">>,
      <<"destination_ip", "destination_ip">>, <<"process_name", "process_name">>,
      <<"process", "process_name">>, <<"process_path", "process_path">>,
      <<"command_line", "command_line">>, <<"cmd", "command_line">>,
      <<"service_name", "service_name">>, <<"service", "service_name">>,
      <<"message", "message">>, <<"msg", "message">>, <<"agent_id", "agent_id">>,
      <<"logon_type", "logon_type">>, <<"raw_xml", "raw_xml">>, <<"xml", "raw_xml">>,
      <<"event_data", "event_data">>, <<"data", "event_data">>,
      <<"full_text", "full_text">>, <<"text", "full_text">>
    }

\* the names of SecurityEvent._meta.get_fields()
ModelFields ==
    {
      "id", "event_id", "event_record_id", "correlation_id", "timestamp",
      "received_at", "source", "channel", "provider_name", "provider_guid", "hostname",
      "domain", "ip_address", "agent_id", "category", "severity", "level",
      "level_name", "task", "task_name", "opcode", "opcode_name", "keywords",
      "message", "raw_xml", "event_data", "user_data", "system_data", "user_name",
      "user_domain", "user_sid", "target_user_name", "target_user_domain",
      "target_user_sid", "process_id", "process_name", "process_path", "command_line",
      "parent_process_id", "parent_process_name", "parent_command_line", "source_ip",
      "source_port", "destination_ip", "destination_port", "protocol", "logon_type",
      "logon_type_name", "logon_id", "authentication_package", "workstation_name",
      "object_name", "object_type", "access_mask", "service_name", "service_type",
      "service_start_type", "service_account", "object_dn", "object_guid",
      "object_class", "attribute_name", "attribute_value", "ticket_encryption_type",
      "ticket_options", "service_name_kerberos", "file_hash_md5", "file_hash_sha1",
      "file_hash_sha256", "status", "status_code", "failure_reason", "full_text",
      "tags", "is_processed", "is_alerted"
    }

\* FIELD_MAP.get(field, field)
field_map_get(field) ==
    LET mapped == { p \in FIELD_MAP : Chars(p[1]) = field }
    IN  IF mapped = {} THEN field ELSE Chars((CHOOSE p \in mapped : TRUE)[2])

_get_valid_fields == ModelFields \cup { p[2] : p \in FIELD_MAP }

_is_valid_field(field_name) == \E f \in _get_valid_fields : Chars(f) = field_name

\* the column a valid field name denotes
Column(field_name) == CHOOSE f \in _get_valid_fields : Chars(f) = field_name

\* Q objects: a lookup on one column (negated by ~Q), or two Q joined by & or |
Q(field, lookup, value) == [op |-> "leaf", field |-> field, lookup |-> lookup, value |-> value, negated |-> FALSE]

QNot(q) == [q EXCEPT !.negated = ~@]

QAnd(p, q) == [op |-> "AND", left |-> p, right |-> q]

QOr(p, q) == [op |-> "OR", left |-> p, right |-> q]

\* value.replace('%', '.*').replace('_', '.')
RECURSIVE like_pattern(_)
like_pattern(cs) ==
    IF cs = << >> THEN << >>
    ELSE (IF cs[1] = "%" THEN <<".", "*">> ELSE IF cs[1] = "_" THEN <<".">> ELSE <<cs[1]>>)
         \o like_pattern(Tail(cs))

\* the value of a condition on the timestamp field (lines 633-651); no text
\* among the inputs is an ISO datetime, so parse_datetime returns None
timestamp_value(value) ==
    IF value.kind = "str" /\ Len(value.s) > 0
       /\ LowerChar(value.s[Len(value.s)]) \in {"h", "m", "s", "d", "w"}
    THEN parse_time_value(value.s)
    ELSE value

\* the Q of one condition on a valid field: q is None for an operator the
\* chain of elifs does not know, err the exception building it raises
condition_q(item) ==
    LET made(q) == [err |-> "", q |-> Some(q)]
        on(field) ==
            LET operator == item.operator
                value == IF field = "timestamp" THEN timestamp_value(item.value) ELSE item.value
            IN  IF operator = <<"=">> THEN made(Q(field, "exact", value))
                ELSE IF operator = <<"!", "=">> THEN made(QNot(Q(field, "exact", value)))
                ELSE IF operator = <<">">> THEN made(Q(field, "gt", value))
                ELSE IF operator = <<">", "=">> THEN made(Q(field, "gte", value))
                ELSE IF operator = <<"<">> THEN made(Q(field, "lt", value))
                ELSE IF operator = <<"<", "=">> THEN made(Q(field, "lte", value))
                ELSE IF operator = <<"C", "O", "N", "T", "A", "I", "N", "S">>
                THEN IF field = "message"
                     THEN made(QOr(QOr(QOr(Q("message", "icontains", value),
                                        Q("raw_xml", "icontains", value)),
                                     Q("event_data", "icontains", value)),
                                  Q("full_text", "icontains", value)))
                     ELSE made(Q(field, "icontains", value))
                ELSE IF operator = <<"L", "I", "K", "E">>
                THEN IF value.kind = "str"
                     THEN made(Q(field, "regex", StrValue(like_pattern(value.s))))
                     ELSE [err |-> "AttributeError", q |-> None]
                ELSE IF operator = <<"I", "N">> THEN made(Q(field, "in", value))
                ELSE [err |-> "", q |-> None]
    IN  on(Column(field_map_get(item.field)))

\* the loop of _build_q_objects from item k on
RECURSIVE build_q_loop(_, _, _, _, _)
build_q_loop(conditions, k, q_result, current_logical, has_valid_conditions) ==
    LET item == conditions[k]
        joined(c) ==
            IF c.err # "" THEN [err |-> c.err, q |-> None, has_valid |-> TRUE]
            ELSE IF c.q = None
            THEN build_q_loop(conditions, k + 1, q_result, current_logical, TRUE)
            ELSE build_q_loop(conditions, k + 1,
                     IF q_result = None THEN c.q
                     ELSE IF current_logical = <<"A", "N", "D">> THEN Some(QAnd(q_result[1], c.q[1]))
                     ELSE IF current_logical = <<"O", "R">> THEN Some(QOr(q_result[1], c.q[1]))
                     ELSE q_result,
                     current_logical, TRUE)
    IN  IF k > Len(conditions)
        THEN [err |-> "", q |-> q_result, has_valid |-> has_valid_conditions]
        ELSE IF item.logical # << >>
        THEN build_q_loop(conditions, k + 1, q_result, item.logical, has_valid_conditions)
        ELSE IF ~_is_valid_field(field_map_get(item.field))
        THEN build_q_loop(conditions, k + 1, q_result, current_logical, has_valid_conditions)
        ELSE joined(condition_q(item))

\* returns (q_result, has_valid_conditions)
_build_q_objects(conditions) ==
    IF conditions = << >> THEN [err |-> "", q |-> None, has_valid |-> TRUE]
    ELSE build_q_loop(conditions, 1, None, <<"A", "N", "D">>, FALSE)

\* A stored row with the columns the queries read, and a run of `copies`
\* rows that agree on all of them (they differ in id only).
Row(event_id, timestamp, hostname, user_name, severity) ==
    [event_id |-> event_id, timestamp |-> timestamp, hostname |-> hostname,
     user_name |-> user_name, severity |-> severity]

Run(row, copies) == [row |-> row, copies |-> copies]

RECURSIVE RowCount(_)
RowCount(runs) == IF runs = << >> THEN 0 ELSE runs[1].copies + RowCount(Tail(runs))

IntColumns == {"event_id"}

\* str(n)
RECURSIVE natural_text(_)
natural_text(n) == IF n < 10 THEN <<Digits[n + 1]>> ELSE Append(natural_text(n \div 10), Digits[(n % 10) + 1])

int_text(n) == IF n < 0 THEN <<"-">> \o natural_text(0 - n) ELSE natural_text(n)

\* the text a lookup on a character column compares with
value_text(value) ==
    CASE value.kind = "str" -> value.s
      [] value.kind = "int" -> int_text(value.n)
      [] value.kind = "bool" -> IF value.n = 1 THEN <<"T", "r", "u", "e">> ELSE <<"F", "a", "l", "s", "e">>

column_text(row, field) == IF field \in IntColumns THEN int_text(row[field]) ELSE Chars(row[field])

\* the number a lookup on an integer column compares with
value_number(value) == IF value.kind = "str" THEN to_int(value.s) ELSE value.n

\* re.match of a pattern of literals, '.' and '<c>*' at the start of text
RECURSIVE match_here(_, _)
match_here(pattern, text) ==
    IF pattern = << >> THEN TRUE
    ELSE IF Len(pattern) >= 2 /\ pattern[2] = "*"
    THEN \E k \in 0..Len(text) :
            /\ \A i \in 1..k : pattern[1] = "." \/ pattern[1] = text[i]
            /\ match_here(SubSeq(pattern, 3, Len(pattern)), SubSeq(text, k + 1, Len(text)))
    ELSE /\ text # << >>
         /\ pattern[1] = "." \/ pattern[1] = text[1]
         /\ match_here(Tail(pattern), Tail(text))

regex_search(pattern, text) == \E i \in 1..(Len(text) + 1) : match_here(pattern, SubSeq(text, i, Len(text)))

\* one lookup of the ORM on one row; the stored columns are never NULL
RECURSIVE lookup_holds(_, _, _, _, _)
lookup_holds(row, field, lookup, value, clock) ==
    IF lookup = "in" THEN \E i \in 1..Len(value.items) : lookup_holds(row, field, "exact", value.items[i], clock)
    ELSE IF lookup = "icontains" THEN Contains(LowerChars(column_text(row, field)), LowerChars(value_text(value)))
    ELSE IF lookup = "regex" THEN regex_search(value.s, column_text(row, field))
    ELSE IF value.kind = "null" THEN FALSE
    ELSE LET column == row[field]
             rhs == IF field = "timestamp" THEN clock - value.n ELSE value_number(value)
         IN  IF field # "timestamp" /\ field \notin IntColumns
             THEN lookup = "exact" /\ value.kind # "datetime" /\ Chars(column) = value_text(value)
             ELSE CASE lookup = "exact" -> column = rhs
                    [] lookup = "gt" -> column > rhs
                    [] lookup = "gte" -> column >= rhs
                    [] lookup = "lt" -> column < rhs
                    [] lookup = "lte" -> column <= rhs

RECURSIVE Holds(_, _, _)
Holds(row, q, clock) ==
    IF q.op = "AND" THEN Holds(row, q.left, clock) /\ Holds(row, q.right, clock)
    ELSE IF q.op = "OR" THEN Holds(row, q.left, clock) \/ Holds(row, q.right, clock)
    ELSE lookup_holds(row, q.field, q.lookup, q.value, clock) # q.negated

\* the exception get_prep_value raises for the right-hand side of a lookup
RECURSIVE prep_error(_, _, _)
prep_error(field, lookup, value) ==
    IF lookup = "in"
    THEN IF \E i \in 1..Len(value.items) : prep_error(field, "exact", value.items[i]) # ""
         THEN prep_error(field, "exact",
                         value.items[CHOOSE i \in 1..Len(value.items) :
                                        /\ prep_error(field, "exact", value.items[i]) # ""
                                        /\ \A j \in 1..(i - 1) : prep_error(field, "exact", value.items[j]) = ""])
         ELSE ""
    ELSE IF lookup \in {"icontains", "regex"} THEN ""
    ELSE IF value.kind = "null" THEN IF lookup = "exact" THEN "" ELSE "ValueError"
    ELSE IF field \in IntColumns
    THEN IF value.kind = "str" /\ ~is_int_text(value.s) THEN "ValueError"
         ELSE IF value.kind = "datetime" THEN "TypeError"
         ELSE ""
    ELSE IF field = "timestamp"
    THEN IF value.kind = "str" THEN "ValidationError"
         ELSE IF value.kind \in {"int", "bool"} THEN "TypeError"
         ELSE ""
    ELSE ""

\* the exception queryset.filter(q) raises, "" when none
RECURSIVE filter_error(_)
filter_error(q) ==
    IF q.op \in {"AND", "OR"}
    THEN IF filter_error(q.left) # "" THEN filter_error(q.left) ELSE filter_error(q.right)
    ELSE prep_error(q.field, q.lookup, q.value)

\* queryset.filter(q): the runs whose rows satisfy q, in table order
filter(runs, q, clock) == SelectSeq(runs, LAMBDA run : Holds(run.row, q, clock))

\* all arrangements of the runs that order_by(key) can return: ties come in
\* any order
Arrangements(runs, key, descending) ==
    LET n == Len(runs)
        perms == { f \in [1..n -> 1..n] : \A i, j \in 1..n : i # j => f[i] # f[j] }
        ordered(f) == \A i \in 1..(n - 1) :
                          IF descending THEN runs[f[i]].row[key] >= runs[f[i + 1]].row[key]
                          ELSE runs[f[i]].row[key] <= runs[f[i + 1]].row[key]
    IN  { [i \in 1..n |-> runs[f[i]]] : f \in { g \in perms : ordered(g) } }

\* a slice that cuts nothing off
take_everything(runs, n) == runs

\* queryset[:n] for n >= 0
RECURSIVE take(_, _)
take(runs, n) ==
    IF runs = << >> \/ n <= 0 THEN << >>
    ELSE IF runs[1].copies <= n THEN <<runs[1]>> \o take(Tail(runs), n - runs[1].copies)
    ELSE <<Run(runs[1].row, n)>>

\* queryset[offset:] for offset >= 0
RECURSIVE drop(_, _)
drop(runs, n) ==
    IF runs = << >> \/ n <= 0 THEN runs
    ELSE IF runs[1].copies <= n THEN drop(Tail(runs), n - runs[1].copies)
    ELSE <<Run(runs[1].row, runs[1].copies - n)>> \o Tail(runs)

\* what a call returns or raises: the rows returned (as runs) when err is ""
Returned(rows) == [err |-> "", rows |-> rows]

Raised(err) == [err |-> err, rows |-> << >>]

\* the same without the test of has_valid
apply_conditions_unchecked(table, b, clock) ==
    IF b.q # None
    THEN IF filter_error(b.q[1]) # "" THEN Raised(filter_error(b.q[1]))
         ELSE Returned(filter(table, b.q[1], clock))
    ELSE Returned(table)

\* lines 489-502 and 522-535: the queryset after the WHERE conditions
apply_conditions(table, b, clock) ==
    IF ~b.has_valid THEN Returned(<< >>)
    ELSE IF b.q # None
    THEN IF filter_error(b.q[1]) # "" THEN Raised(filter_error(b.q[1]))
         ELSE Returned(filter(table, b.q[1], clock))
    ELSE Returned(table)

_execute_search(ast, table, clock) ==
    LET limit == IF ast.limit = None THEN 100 ELSE ast.limit[1]
        offset == IF ast.offset = None THEN 0 ELSE ast.offset[1]
        sliced(filtered, order_by) ==
            IF filtered.err # "" THEN {filtered}
            ELSE IF ~_is_valid_field(order_by) THEN {Raised("FieldError")}
            ELSE IF offset < 0 \/ offset + limit < 0 THEN {Raised("ValueError")}
            ELSE { Returned(take(drop(rows, offset), limit)) :
                     rows \in Arrangements(filtered.rows, Column(order_by),
                                           ast.order_dir = Some(<<"D", "E", "S", "C">>)) }
        built(b) ==
            IF b.err # "" THEN {Raised(b.err)}
            ELSE sliced(apply_conditions(table, b, clock),
                        field_map_get(IF ast.order_by = None THEN <<"t", "i", "m", "e", "s", "t", "a", "m", "p">>
                                      ELSE ast.order_by[1]))
    IN  built(_build_q_objects(ast.conditions))

SetToSeq(S) == CHOOSE f \in [1..Cardinality(S) -> S] : \A i, j \in 1..Cardinality(S) : i # j => f[i] # f[j]

SetMin(S) == CHOOSE x \in S : \A y \in S : x <= y

SetMax(S) == CHOOSE x \in S : \A y \in S : x >= y

\* values(group_by).annotate(count=Count('id'), first_seen=Min('timestamp'),
\* last_seen=Max('timestamp')): one row per value of the column
annotate(runs, group_by) ==
    LET keys == { runs[i].row[group_by] : i \in 1..Len(runs) }
        members(v) == SelectSeq(runs, LAMBDA run : run.row[group_by] = v)
        stamps(v) == { runs[i].row.timestamp : i \in { j \in 1..Len(runs) : runs[j].row[group_by] = v } }
    IN  SetToSeq({ Run([key |-> v, count |-> RowCount(members(v)),
                        first_seen |-> SetMin(stamps(v)), last_seen |-> SetMax(stamps(v))], 1) :
                   v \in keys })

_execute_hunt(ast, table, clock) ==
    LET limit == IF ast.limit = None THEN 500 ELSE ast.limit[1]
        sliced(filtered, group_by) ==
            IF filtered.err # "" THEN {filtered}
            ELSE IF group_by # None /\ ~_is_valid_field(group_by[1]) THEN {Raised("FieldError")}
            ELSE IF limit < 0 THEN {Raised("ValueError")}
            ELSE IF group_by # None
            THEN { Returned(take(rows, limit)) :
                     rows \in Arrangements(annotate(filtered.rows, Column(group_by[1])),
                                           "count", TRUE) }
            ELSE \* Meta.ordering = ['-timestamp']
                 { Returned(take(rows, limit)) :
                     rows \in Arrangements(filtered.rows, "timestamp", TRUE) }
        built(b) ==
            IF b.err # "" THEN {Raised(b.err)}
            ELSE sliced(apply_conditions(table, b, clock),
                        IF ast.group_by = None THEN None
                        ELSE Some(field_map_get(ast.group_by[1])))
    IN  built(_build_q_objects(ast.conditions))

\* lines 554-563: the time filter of WITHIN
apply_within(table, within, clock) ==
    IF within = None THEN table
    ELSE LET v == IF within[1].kind = "str" /\ within[1].s # << >>
                  THEN parse_time_value(within[1].s) ELSE within[1]
         IN  IF v.kind = "datetime"
             THEN SelectSeq(table, LAMBDA run : run.row.timestamp >= clock - v.n)
             ELSE table

\* q_objects is the pair (q_result, has_valid_conditions), always true as a
\* condition; filter() on the pair raises FieldError for (None, x), which is
\* caught, and AttributeError for (Q, x), which is raised again
_execute_aggregate(ast, table, clock) ==
    LET windowed == apply_within(table, ast.within, clock)
        grouped(filtered, group_by) ==
            IF filtered.err # "" THEN {filtered}
            ELSE IF group_by # None /\ ~_is_valid_field(group_by[1]) THEN {Raised("FieldError")}
            ELSE IF /\ group_by # None
                    /\ \A i \in 1..Len(ast.aggregations) : ast.aggregations[i] # <<"C", "O", "U", "N", "T">>
            THEN {Raised("FieldError")}
            ELSE {Returned(take(filtered.rows, 100))}
        built(b) ==
            IF b.err # "" THEN {Raised(b.err)}
            ELSE grouped(IF b.q = None THEN Returned(<< >>) ELSE Raised("AttributeError"),
                         IF ast.group_by = None THEN None
                         ELSE Some(field_map_get(ast.group_by[1])))
    IN  built(_build_q_objects(ast.conditions))

execute(ast, table, clock) ==
    IF ast.command = "SEARCH" THEN _execute_search(ast, table, clock)
    ELSE IF ast.command = "HUNT" THEN _execute_hunt(ast, table, clock)
    ELSE IF ast.command = "AGGREGATE" THEN _execute_aggregate(ast, table, clock)
    ELSE {Raised("PQLExecutionError")}

\* lines 719-721: the caller's limit overrides the parsed one
override_limit(ast, limit) ==
    IF limit # 0 /\ 1 <= limit /\ limit <= 5000
    THEN IF ast.limit = None \/ ast.limit[1] > limit
         THEN [ast EXCEPT !.limit = Some(limit)]
         ELSE ast
    ELSE ast

\* execute_pql(query_string, limit): the possible outcomes, with the AST that
\* was handed to the executor (executed is FALSE when none was)
execute_pql(query_string, limit, table, clock) ==
    LET ran(ast) ==
            { [err |-> r.err, rows |-> r.rows, executed |-> TRUE, ast |-> ast] :
                r \in execute(ast, table, clock) }
        parsed(p) ==
            IF p.err # ""
            THEN {[err |-> p.err, rows |-> << >>, executed |-> FALSE, ast |-> NoAst]}
            ELSE ran(override_limit(p.ast, limit))
    IN  IF query_string = << >> \/ \A i \in 1..Len(query_string) : query_string[i] \in SpaceSet
        THEN {[err |-> "PQLSyntaxError", rows |-> << >>, executed |-> FALSE, ast |-> NoAst]}
        ELSE parsed(parse(tokenize(query_string)))

\* ------------------------------------------------------------------------
\* The query endpoints (apps/query/views).  execution_time_ms is a
\* measurement of the run and is not part of the rows or responses here.
\* ------------------------------------------------------------------------
QueryHistory(query, result_count, was_successful, error_message) ==
    [query |-> query, result_count |-> result_count,
     was_successful |-> was_successful, error_message |-> error_message]

SavedQuery(query) == [query |-> query, run_count |-> 0, last_run_at |-> None]

\* the response of a query endpoint to its request; request numbers the
\* requests answered so far
QueryResponse(endpoint, query, limit, save_history, status, error_type, outcome) ==
    [endpoint |-> endpoint, request |-> response.request + 1, query |-> query,
     limit |-> limit, save_history |-> save_history, status |-> status,
     error_type |-> error_type, result_count |-> RowCount(outcome.rows),
     results |-> outcome.rows, executed |-> outcome.executed, ast |-> outcome.ast]

NotExecuted == [err |-> "", rows |-> << >>, executed |-> FALSE, ast |-> NoAst]

\* str.strip() of the CharField
RECURSIVE lstrip(_)
lstrip(cs) == IF cs # << >> /\ cs[1] \in SpaceSet THEN lstrip(Tail(cs)) ELSE cs

RECURSIVE rstrip(_)
rstrip(cs) == IF cs # << >> /\ cs[Len(cs)] \in SpaceSet THEN rstrip(SubSeq(cs, 1, Len(cs) - 1)) ELSE cs

strip(cs) == rstrip(lstrip(cs))

\* PQLExecuteView.post
PQLExecutePost(query, limit, save_history) ==
    LET query_string == strip(query)
        record(row) == IF save_history THEN Append(history, row) ELSE history
    IN  /\ UNCHANGED << now, rules, suppressions, trackers, alerts, events, engine,
                        nextEventPk, nextTrackerPk, nextAlertPk, lastEvent, lastAlerts,
                        pc, local, lastRaised, processed, savedQueries >>
        /\ IF limit > 5000 \/ query_string = << >>
           THEN /\ response' = QueryResponse("execute", query_string, limit, save_history,
                                             400, "validation_error", NotExecuted)
                /\ UNCHANGED history
           ELSE \E o \in execute_pql(query_string, limit, events, now) :
                  IF o.err = ""
                  THEN /\ history' = record(QueryHistory(query_string, RowCount(o.rows), TRUE, ""))
                       /\ response' = QueryResponse("execute", query_string, limit,
                                                    save_history, 200, "", o)
                  ELSE /\ history' = record(QueryHistory(query_string, 0, FALSE, o.err))
                       /\ response' = QueryResponse("execute", query_string, limit, save_history,
                                         IF o.err = "PQLSyntaxError" THEN 400 ELSE 500,
                                         CASE o.err = "PQLSyntaxError" -> "syntax_error"
                                           [] o.err = "PQLExecutionError" -> "execution_error"
                                           [] OTHER -> "internal_error",
                                         o)

\* SavedQueryViewSet.run: execute_pql with its default limit of 100; an
\* exception other than the two PQL errors leaves the view, answered 500
SavedQueryRun(pk) ==
    LET saved_query == savedQueries[pk]
    IN  /\ UNCHANGED << now, rules, suppressions, trackers, alerts, events, engine,
                        nextEventPk, nextTrackerPk, nextAlertPk, lastEvent, lastAlerts,
                        pc, local, lastRaised, processed >>
        /\ \E o \in execute_pql(saved_query.query, 100, events, now) :
              IF o.err = ""
              THEN /\ savedQueries' = [savedQueries EXCEPT ![pk].run_count = @ + 1,
                                                           ![pk].last_run_at = Some(now)]
                   /\ history' = Append(history, QueryHistory(saved_query.query, RowCount(o.rows), TRUE, ""))
                   /\ response' = QueryResponse("run", saved_query.query, 100, TRUE, 200, "", o)
              ELSE /\ UNCHANGED << savedQueries, history >>
                   /\ response' = QueryResponse("run", saved_query.query, 100, TRUE,
                                     IF o.err \in {"PQLSyntaxError", "PQLExecutionError"} THEN 400 ELSE 500,
                                     IF o.err \in {"PQLSyntaxError", "PQLExecutionError"} THEN "error"
                                     ELSE "unhandled",
                                     o)

\* ------------------------------------------------------------------------
\* SpecPQL: requests to the two query endpoints against a stored table.  The
\* table is held as runs of rows; now and the timestamps count seconds.
\* ------------------------------------------------------------------------
MaxRequests == 1

PQLNow == 100000

\* 15 CRITICAL rows (8 older, 7 newer) and 5 others in between
SmallTable ==
    << Run(Row(4625, PQLNow - 7200, "srv02", "alice", "CRITICAL"), 8),
       Run(Row(4624, PQLNow - 1800, "srv01", "bob", "INFO"), 5),
       Run(Row(4625, PQLNow - 60, "srv02", "alice", "CRITICAL"), 7) >>

\* more rows than any limit
LargeTable ==
    << Run(Row(4624, PQLNow - 86400, "srv01", "bob", "HIGH"), 600),
       Run(Row(4625, PQLNow - 3600, "srv02", "alice", "CRITICAL"), 6001),
       Run(Row(4624, PQLNow - 30, "srv01", "carol", "INFO"), 1) >>

Tables == {SmallTable, LargeTable}

QueryTexts ==
    { Join(words) : words \in
        { <<"SEARCH", "WHERE", "bogus_field", "=", "1">>,
          <<"SEARCH", "WHERE", "bogus_field", "=", "1", "OR", "other_field", "CONTAINS", "ali", "LIMIT", "5">>,
          <<"HUNT", "WHERE", "bogus_field", "=", "1">>,
          <<"HUNT", "WHERE", "bogus_field", "!=", "1", "AND", "other_field", "=", "2", "GROUP", "BY", "hostname">>,
          <<"AGGREGATE", "WHERE", "bogus_field", "=", "1">>,
          <<"AGGREGATE", "BY", "hostname", "COUNT", "WHERE", "bogus_field", "=", "1", "WITHIN", "1h">>,
          <<"SEARCH", "WHERE", "bogus_field", "=", "1", "LIMIT", "-5">>,
          <<"SEARCH", "WHERE", "severity", "=", "CRITICAL", "LIMIT", "10">>,
          <<"SEARCH", "events", "WHERE", "severity", "=", "INFO", "LIMIT", "10">>,
          <<"SEARCH", "WHERE", "severity", "=", "CRITICAL", "LIMIT", "0">>,
          <<"SEARCH", "WHERE", "severity", "=", "critical", "LIMIT", "5">>,
          <<"SEARCH", "WHERE", "severity", "=", "CRITICAL", "AND", "event_id", ">=", "4625", "OR", "user", "LIKE", "ali">>,
          <<"SEARCH", "WHERE", "event_id", "IN", "(", "4624", ",", "4625", ")", "AND", "timestamp", ">", "1h", "ORDER", "BY", "event_id", "ASC">>,
          <<"SEARCH", "WHERE", "severity", "==", "CRITICAL">>,
          <<"SEARCH", "WHERE", "severity", "=", "CRITICAL", "NOT", "event_id", "=", "4625">>,
          <<"SEARCH", "WHERE", "severity", "=", "CRITICAL", "bogus_field">>,
          <<"SEARCH", "LIMIT", "5", "WHERE", "severity", "=", "CRITICAL">>,
          <<"SEARCH", "WHERE", "severity", "=">>,
          <<"WHERE", "severity", "=", "CRITICAL">>,
          <<"SEARCH", "LIMIT", "6000">>,
          <<"SEARCH", "LIMIT", "1h">>,
          <<"HUNT">>,
          <<"HUNT", "WHERE", "severity", "=", "CRITICAL">>,
          <<"HUNT", "GROUP", "BY", "user", "LIMIT", "1">>,
          <<"AGGREGATE", "BY", "hostname", "COUNT">>,
          <<"AGGREGATE", "WHERE", "severity", "=", "CRITICAL">> } }

\* the limit field of the request: absent (the default 100), zero, small,
\* the maximum, and above it
RequestLimits == {0, 7, 100, 5000, 6000}

\* the rows the create endpoint stored, which validates no PQL
SavedQueries ==
    [ pk \in {1, 2, 3} |->
        SavedQuery(Join(CASE pk = 1 -> <<"HUNT">>
                          [] pk = 2 -> <<"SEARCH", "WHERE", "severity", "=">>
                          [] pk = 3 -> <<"SEARCH", "WHERE", "severity", "=", "CRITICAL", "LIMIT", "10">>)) ]

InitPQL ==
    /\ now = PQLNow
    /\ rules = << >>
    /\ suppressions = {}
    /\ trackers = {}
    /\ alerts = {}
    /\ events \in Tables
    /\ engine = [w \in Workers |-> << >>]
    /\ nextEventPk = 1
    /\ nextTrackerPk = 1
    /\ nextAlertPk = 1
    /\ lastEvent = NoEvent
    /\ lastAlerts = << >>
    /\ pc = [w \in Workers |-> "idle"]
    /\ local = [w \in Workers |-> << >>]
    /\ lastRaised = FALSE
    /\ processed = << >>
    /\ response = [endpoint |-> "", request |-> 0]
    /\ history = << >>
    /\ savedQueries = SavedQueries

\* the request bodies: every query with every limit, and without history
\* for the default limit
Requests ==
    { r \in [query : QueryTexts, limit : RequestLimits, save_history : BOOLEAN] :
        ~r.save_history => r.limit = 100 }

Execute ==
    /\ response.request < MaxRequests
    /\ \E r \in Requests : PQLExecutePost(r.query, r.limit, r.save_history)

RunSaved ==
    /\ response.request < MaxRequests
    /\ \E pk \in DOMAIN savedQueries : SavedQueryRun(pk)

NextPQL == Execute \/ RunSaved

SpecPQL == InitPQL /\ [][NextPQL]_vars

\* ------------------------------------------------------------------------
\* Claims about PQL
\* ------------------------------------------------------------------------
\* the request the latest response answers reached execute_pql
Answered == response.endpoint \in {"execute", "run"} /\ response.error_type # "validation_error"

\* the AST the parser makes of the text of the latest request
ParsedQuery == parse(tokenize(response.query))

\* the parser stopped at the end of the text
ParsedInFull == ParsedQuery.err = "" /\ current_token(tokenize(response.query), ParsedQuery.pos).type = "EOF"

\* the conditions proper of a parsed WHERE clause, without the connectives
ConditionsOf(ast) == SelectSeq(ast.conditions, LAMBDA item : item.logical = << >>)

KnownField(field) == _is_valid_field(field_map_get(field))

\* the latest query has a WHERE clause and every field in it is unknown
OnlyUnknownFields ==
    /\ ParsedInFull
    /\ ConditionsOf(ParsedQuery.ast) # << >>
    /\ \A i \in 1..Len(ConditionsOf(ParsedQuery.ast)) : ~KnownField(ConditionsOf(ParsedQuery.ast)[i].field)

\* the latest query, stripped of its WHERE clause, executes without error
RestExecutes ==
    \A o \in execute([override_limit(ParsedQuery.ast, response.limit) EXCEPT !.conditions = << >>], events, now) : o.err = ""

\* C12: a SEARCH, HUNT or AGGREGATE query whose WHERE clause names only
\* fields unknown to the event schema, and whose other clauses execute, is
\* answered with success and an empty result: no error, no unfiltered rows
C12_UnknownFieldsReturnNothing ==
    (Answered /\ OnlyUnknownFields /\ RestExecutes) =>
        /\ response.error_type = ""
        /\ response.status = 200
        /\ response.results = << >>
        /\ response.result_count = 0

C12_Witness ==
    /\ Answered /\ OnlyUnknownFields /\ RestExecutes
    /\ response.ast.command = "HUNT"
    /\ Len(ConditionsOf(response.ast)) = 2
    /\ events = LargeTable
    /\ response.results = << >>

\* the latest request was a SEARCH that succeeded and whose WHERE clause
\* names known fields only
SearchOnKnownFields ==
    /\ Answered /\ response.status = 200
    /\ response.ast.command = "SEARCH"
    /\ ConditionsOf(response.ast) # << >>
    /\ \A i \in 1..Len(ConditionsOf(response.ast)) : KnownField(ConditionsOf(response.ast)[i].field)

\* the strict left-to-right fold ((c1 k1 c2) k2 c3)... of the conditions on a
\* row, from item k on, acc being the value of the fold before it
RECURSIVE FoldFrom(_, _, _, _)
FoldFrom(row, conditions, k, acc) ==
    IF k > Len(conditions) THEN acc
    ELSE LET c == Holds(row, condition_q(conditions[k + 1]).q[1], now)
         IN  FoldFrom(row, conditions, k + 2,
                      IF conditions[k].logical = Chars("AND") THEN acc /\ c ELSE acc \/ c)

Fold(row, conditions) == FoldFrom(row, conditions, 2, Holds(row, condition_q(conditions[1]).q[1], now))

\* C13: in a SEARCH on known fields every parsed condition takes part in the
\* fold (it has a lookup, and the connective before it is AND or OR), and the
\* rows returned are the rows of the table that satisfy the left-to-right
\* fold, up to the limit
C13_EveryConditionTakesPart ==
    SearchOnKnownFields =>
        LET conditions == response.ast.conditions
            matching == SelectSeq(events, LAMBDA run : Fold(run.row, conditions))
        IN  /\ \A k \in 1..Len(conditions) :
                  IF conditions[k].logical # << >>
                  THEN conditions[k].logical \in {Chars("AND"), Chars("OR")}
                  ELSE condition_q(conditions[k]).q # None
            /\ response.result_count = Min(response.ast.limit[1], RowCount(matching))
            /\ \A i \in 1..Len(response.results) : Fold(response.results[i].row, conditions)

\* C14: a query text the parser cannot parse, or of which it leaves tokens
\* unread after the last clause it recognises, is rejected as a syntax error
\* and no part of it is executed
C14_MalformedIsRejected ==
    (Answered /\ ~ParsedInFull) =>
        /\ response.status = 400
        /\ response.error_type \in {"syntax_error", "error"}
        /\ ~response.executed

\* the latest request was a SEARCH with one equality condition on a text
\* column, no ORDER BY and LIMIT n, and the limit of the request did not
\* replace n
OneEqualitySearch ==
    /\ Answered /\ ParsedInFull
    /\ ParsedQuery.ast.command = "SEARCH"
    /\ Len(ParsedQuery.ast.conditions) = 1
    /\ ParsedQuery.ast.conditions[1].operator = Chars("=")
    /\ ParsedQuery.ast.conditions[1].value.kind = "str"
    /\ KnownField(ParsedQuery.ast.conditions[1].field)
    /\ Column(field_map_get(ParsedQuery.ast.conditions[1].field)) \in {"severity", "hostname", "user_name"}
    /\ ParsedQuery.ast.order_by = None
    /\ ParsedQuery.ast.limit[1] >= 0
    /\ override_limit(ParsedQuery.ast, response.limit) = ParsedQuery.ast

\* the row has the value the condition of the latest query asks for
Matches(row) ==
    LET condition == ParsedQuery.ast.conditions[1]
    IN  Chars(row[Column(field_map_get(condition.field))]) = condition.value.s

\* C15: 'SEARCH WHERE severity = CRITICAL LIMIT 10' parses to a SEARCH with
\* the one condition (severity, =, "CRITICAL") and limit 10; a SEARCH with
\* one equality condition and LIMIT n returns min(n, matching rows) rows, all
\* matching, newest first, and no matching row left out is newer than one
\* returned
C15_SearchWithLimit ==
    /\ (Answered /\ response.query = Join(<<"SEARCH", "WHERE", "severity", "=", "CRITICAL", "LIMIT", "10">>)) =>
          /\ ParsedInFull
          /\ ParsedQuery.ast.command = "SEARCH"
          /\ ParsedQuery.ast.conditions = <<Condition(Chars("severity"), Chars("="), StrValue(Chars("CRITICAL")))>>
          /\ ParsedQuery.ast.limit = Some(10)
    /\ OneEqualitySearch =>
          LET n == ParsedQuery.ast.limit[1]
              matching == SelectSeq(events, LAMBDA run : Matches(run.row))
              results == response.results
              returned(row) == RowCount(SelectSeq(results, LAMBDA run : run.row = row))
          IN  /\ response.status = 200
              /\ response.result_count = Min(n, RowCount(matching))
              /\ RowCount(results) = response.result_count
              /\ \A i \in 1..Len(results) : Matches(results[i].row)
              /\ \A i, j \in 1..Len(results) :
                    i < j => results[i].row.timestamp >= results[j].row.timestamp
              /\ \A k \in 1..Len(matching) :
                    /\ returned(matching[k].row) <= matching[k].copies
                    /\ returned(matching[k].row) < matching[k].copies =>
                          \A i \in 1..Len(results) :
                              results[i].row.timestamp >= matching[k].row.timestamp

C15_Witness ==
    /\ OneEqualitySearch
    /\ response.query = Join(<<"SEARCH", "WHERE", "severity", "=", "CRITICAL", "LIMIT", "10">>)
    /\ events = SmallTable
    /\ response.result_count = 10
    /\ response.results = <<Run(SmallTable[3].row, 7), Run(SmallTable[1].row, 3)>>

\* C16: whatever the query and the limit of the request, a successful
\* answer has at most 5000 rows, and at most the limit of the request when
\* that is in 1..5000
C16_ResultSizeIsBounded ==
    (Answered /\ response.status = 200) =>
        /\ RowCount(response.results) <= 5000
        /\ response.limit \in 1..5000 => RowCount(response.results) <= response.limit

\* the latest request was a HUNT without LIMIT and GROUP BY clauses, on known
\* fields if it has a WHERE clause, run with the default limit argument
HuntWithoutLimit ==
    /\ Answered /\ ParsedInFull
    /\ ParsedQuery.ast.command = "HUNT"
    /\ \A i \in 1..Len(tokenize(response.query)) : ~Is(tokenize(response.query)[i], <<"L", "I", "M", "I", "T">>)
    /\ ParsedQuery.ast.group_by = None
    /\ \A i \in 1..Len(ConditionsOf(ParsedQuery.ast)) : KnownField(ConditionsOf(ParsedQuery.ast)[i].field)
    /\ response.limit = 100

\* the rows the WHERE clause of the latest query selects
Selected ==
    IF ParsedQuery.ast.conditions = << >> THEN events
    ELSE SelectSeq(events, LAMBDA run : Fold(run.row, ParsedQuery.ast.conditions))

\* C17: a HUNT without LIMIT has limit 500: run through execute_pql with its
\* default arguments on more than 500 matching rows it returns 500 rows
C17_HuntDefaultLimit ==
    (HuntWithoutLimit /\ RowCount(Selected) > 500) =>
        /\ ParsedQuery.ast.limit = Some(500)
        /\ response.status = 200
        /\ response.result_count = 500

\* C18: every execution attempt with history recording in effect that
\* succeeds or fails with a syntax or execution error appends exactly one
\* QueryHistory row: successful with the result count, or unsuccessful with
\* the error message
C18_EveryAttemptIsRecorded ==
    [][ ( /\ response'.request # response.request
          /\ response'.endpoint \in {"execute", "run"}
          /\ response'.save_history
          /\ response'.error_type \in {"", "syntax_error", "execution_error", "error"} ) =>
            /\ Len(history') = Len(history) + 1
            /\ SubSeq(history', 1, Len(history)) = history
            /\ history'[Len(history')].query = response'.query
            /\ history'[Len(history')].was_successful = (response'.status = 200)
            /\ response'.status = 200 =>
                  history'[Len(history')].result_count = response'.result_count
            /\ response'.status # 200 => history'[Len(history')].error_message # "" ]_vars

\* ------------------------------------------------------------------------
\* SpecReplay: process_event_detection is called again on events the store
\* already holds.  One THRESHOLD rule without cooldown; failed logons of two
\* users, successful logons the rule does not match, and noise.
\* ------------------------------------------------------------------------
MaxReplays == 3

ReplayRule ==
    Rule(1, "THRESHOLD", 0, 50,
         [DefaultLogic EXCEPT !.event_ids = {4625}, !.threshold = 2,
                              !.window_minutes = 2])

ReplayEvents ==
    { Event(id, 0, "h1", u, "", "ip1", "p1", "s1", "w1") :
        id \in {4625, 4624}, u \in {"alice", "bob"} }

\* process_event_detection(event) by worker w on the stored event number k
Reprocess(w, k) ==
    /\ pc[w] = "idle"
    /\ k \in 1..Len(events)
    /\ \E out \in process_event(Store(w), events[k], now) :
          /\ trackers' = out.trackers
          /\ alerts' = out.alerts
          /\ rules' = out.rules
          /\ engine' = [engine EXCEPT ![w] = out.cache]
          /\ nextTrackerPk' = out.nextTrackerPk
          /\ nextAlertPk' = out.nextAlertPk
          /\ lastAlerts' = out.ret
          /\ lastRaised' = out.raised
    /\ lastEvent' = events[k]
    /\ processed' = Append(processed, events[k].pk)
    /\ UNCHANGED << now, suppressions, events, nextEventPk, pc, local, response,
                    history, savedQueries >>

InitReplay == InitStores(1 :> ReplayRule, {})

IngestReplay ==
    /\ Len(processed) < MaxReplays
    /\ \E e \in ReplayEvents, age \in 0..MaxSkew : ProcessEvent(1, e, age)

Replay ==
    /\ Len(processed) < MaxReplays
    /\ \E k \in 1..Len(events) : Reprocess(1, k)

NextReplay == IngestReplay \/ Replay \/ Tick

SpecReplay == InitReplay /\ [][NextReplay]_vars

\* the step processed a stored event again
Reprocessed == events' = events /\ Len(processed') = Len(processed) + 1

\* how often the identifier occurs in the tracker's event_ids
Occurrences(tracker, pk) ==
    Cardinality({ k \in 1..Len(tracker.event_ids) : tracker.event_ids[k] = pk })

\* C21: processing a stored event again, when the rule counts it, adds one to
\* the count of the event id in the tracker the call resolves to and appends
\* the event's identifier to its event_ids, whether or not the identifier is
\* in the list already; a tracker created by the call starts with count 1
C21_ReprocessingCountsAgain ==
    [][ ( /\ Reprocessed
          /\ ~rejected_before_tracker(ReplayRule, lastEvent',
                  is_system_account(lastEvent'.user_name),
                  is_system_account(lastEvent'.target_user_name)) )
            => \E t2 \in trackers' :
                  /\ t2.entity_value = lastEvent'.user_name
                  /\ \/ \E t \in trackers :
                           /\ t2.pk = t.pk
                           /\ get_event_count(t2, lastEvent'.event_id)
                                 = get_event_count(t, lastEvent'.event_id) + 1
                           /\ t2.event_ids = Append(t.event_ids, lastEvent'.pk)
                           /\ Occurrences(t2, lastEvent'.pk) = Occurrences(t, lastEvent'.pk) + 1
                     \/ /\ \A t \in trackers : t2.pk # t.pk
                        /\ get_event_count(t2, lastEvent'.event_id) = 1
                        /\ t2.event_ids = <<lastEvent'.pk>>
      ]_vars

\* one stored event, processed three times and counted three times
C21_Witness ==
    /\ Len(events) = 1
    /\ \E t \in trackers :
          /\ t.event_ids = <<1, 1, 1>>
          /\ get_event_count(t, 4625) = 3
    /\ alerts # {}
\* ------------------------------------------------------------------------
\* Time values (pql_engine.py 113-125, 343-358, 378-412)
\* ------------------------------------------------------------------------
MaxTimeRequests == 1

\* queries with suffixed numbers: every unit, as WHERE value and as WITHIN
\* argument, a negative and a non-integer amount, and one outside a value
TimeQueryTexts ==
    { Join(words) : words \in
        { <<"SEARCH", "WHERE", "timestamp", ">=", "24h">>,
          <<"SEARCH", "WHERE", "timestamp", "<", "2h">>,
          <<"SEARCH", "WHERE", "timestamp", ">", "1.5h">>,
          <<"SEARCH", "WHERE", "timestamp", "<=", "-5h">>,
          <<"SEARCH", "WHERE", "timestamp", ">", "1m", "AND", "timestamp", "<=", "60s">>,
          <<"SEARCH", "WHERE", "event_id", "IN", "(", "4624", ",", "4625", ")", "AND", "timestamp", ">", "1h", "ORDER", "BY", "event_id", "ASC">>,
          <<"SEARCH", "LIMIT", "1h">>,
          <<"HUNT", "WHERE", "timestamp", ">=", "1d">>,
          <<"AGGREGATE", "COUNT", "WITHIN", "1w">>,
          <<"AGGREGATE", "BY", "hostname", "COUNT", "WHERE", "severity", "=", "CRITICAL", "WITHIN", "1d">>,
          <<"AGGREGATE", "BY", "hostname", "COUNT", "WHERE", "bogus_field", "=", "1", "WITHIN", "1h">> } }

TimeRequests ==
    { r \in [query : TimeQueryTexts, limit : RequestLimits, save_history : BOOLEAN] :
        ~r.save_history => r.limit = 100 }

ExecuteTime ==
    /\ response.request < MaxTimeRequests
    /\ \E r \in TimeRequests : PQLExecutePost(r.query, r.limit, r.save_history)

NextTime == ExecuteTime

SpecTime == InitPQL /\ [][NextTime]_vars

TimeUnits == {"s", "m", "h", "d", "w"}

\* the token is a NUMBER that _read_number closed with a unit suffix
Suffixed(token) == token.type = "NUMBER" /\ token.value # << >> /\ token.value[Len(token.value)] \in TimeUnits

\* the positions of the parsed part of the latest query where a suffixed
\* NUMBER stands as the value of a comparison or as the WITHIN argument
TimeValuePositions ==
    LET tokens == tokenize(response.query)
    IN  { i \in 2..Len(tokens) :
            /\ i < ParsedQuery.pos
            /\ Suffixed(tokens[i])
            /\ (tokens[i - 1].type = "COMPARISON" \/ Is(tokens[i - 1], <<"W", "I", "T", "H", "I", "N">>)) }

\* the seconds before now that the text n<u> denotes: n times the unit for
\* an integer amount n, none otherwise
SecondsBeforeNow(text) ==
    LET amount == SubSeq(text, 1, Len(text) - 1)
    IN  IF is_int_text(amount) THEN to_int(amount) * UnitSeconds(text[Len(text)]) ELSE 0

\* the latest query is a SEARCH with the single condition timestamp <op> n<u>
TimestampSearch ==
    /\ Answered /\ ParsedInFull
    /\ ParsedQuery.ast.command = "SEARCH"
    /\ Len(ParsedQuery.ast.conditions) = 1
    /\ ParsedQuery.ast.conditions[1].field = <<"t", "i", "m", "e", "s", "t", "a", "m", "p">>
    /\ Len(tokenize(response.query)) = 6
    /\ TimeValuePositions = {5}

\* timestamp <op> instant on a row
Compared(timestamp, operator, instant) ==
    CASE operator = <<">">> -> timestamp > instant
      [] operator = <<">", "=">> -> timestamp >= instant
      [] operator = <<"<">> -> timestamp < instant
      [] operator = <<"<", "=">> -> timestamp <= instant
      [] OTHER -> FALSE

\* C22: a NUMBER token with a unit suffix and an integer amount n, standing
\* as a WHERE value or as the WITHIN argument, becomes the instant
\* now - n * unit in the AST (24h is now - 86400 seconds), and now itself
\* when the amount is not an integer; a SEARCH on timestamp alone returns
\* the rows that compare so with that instant, up to the limit
C22_TimeValueResolution ==
    /\ (Answered /\ response.executed) =>
          \A i \in TimeValuePositions :
              LET tokens == tokenize(response.query)
                  instant == TimeValue(SecondsBeforeNow(tokens[i].value))
              IN  IF Is(tokens[i - 1], <<"W", "I", "T", "H", "I", "N">>)
                  THEN response.ast.within = Some(instant)
                  ELSE \E k \in 1..Len(response.ast.conditions) :
                          /\ response.ast.conditions[k].logical = << >>
                          /\ response.ast.conditions[k].field = tokens[i - 2].value
                          /\ response.ast.conditions[k].operator = tokens[i - 1].value
                          /\ response.ast.conditions[k].value = instant
    /\ TimestampSearch =>
          LET tokens == tokenize(response.query)
              instant == now - SecondsBeforeNow(tokens[5].value)
              matching == SelectSeq(events, LAMBDA run : Compared(run.row.timestamp, tokens[4].value, instant))
          IN  /\ response.error_type = ""
              /\ response.result_count = Min(response.ast.limit[1], RowCount(matching))

\* 24h at reference time T selects the rows from T - 24 hours on, which
\* are more than the limit
C22_Witness ==
    /\ TimestampSearch
    /\ response.query = Join(<<"SEARCH", "WHERE", "timestamp", ">=", "24h">>)
    /\ response.ast.conditions[1].value = TimeValue(86400)
    /\ events = LargeTable
    /\ RowCount(SelectSeq(events, LAMBDA run : run.row.timestamp >= now - 86400)) = 6602
    /\ response.result_count = response.ast.limit[1]

\* a non-integer amount: 1.5h is now, and no stored row is later than now
C22_WitnessNotInteger ==
    /\ TimestampSearch
    /\ response.query = Join(<<"SEARCH", "WHERE", "timestamp", ">", "1.5h">>)
    /\ response.ast.conditions[1].value = TimeValue(0)
    /\ response.result_count = 0
\* ------------------------------------------------------------------------
\* Alert triage (apps/detection/views.py, DetectionAlertViewSet)
\* ------------------------------------------------------------------------
MaxTriageAlerts == 2

MaxFalsePositives == 2

AlertStatuses == {"NEW", "ACKNOWLEDGED", "INVESTIGATING", "RESOLVED", "FALSE_POSITIVE", "CLOSED"}

\* two rules that fire on every failed logon of a host, of a user
TriageRules ==
    1 :> Rule(1, "THRESHOLD", 0, 50, [DefaultLogic EXCEPT !.track_by = "hostname", !.event_ids = {4625}, !.threshold = 1, !.window_minutes = 1])
    @@ 2 :> Rule(2, "THRESHOLD", 0, 50, [DefaultLogic EXCEPT !.event_ids = {4625}, !.threshold = 2, !.window_minutes = 1])

TriageEvent == Event(4625, 0, "h1", "alice", "", "ip1", "p1", "s1", "w1")

\* resolved_at of a row whose status is set to status at clock
resolved_at(status, clock) == IF status \in {"RESOLVED", "FALSE_POSITIVE"} THEN Some(clock) ELSE None

\* POST alerts/<pk>/update_status/ with a status of STATUS_CHOICES and no
\* notes: the row is saved with the status, resolved_at is set for RESOLVED
\* and FALSE_POSITIVE, and FALSE_POSITIVE adds one to the rule's counter
update_status(pk, status) ==
    /\ \E alert \in alerts :
          /\ alert.pk = pk
          /\ alerts' = (alerts \ {alert}) \cup
                 {[alert EXCEPT !.status = status,
                                !.resolved_at = IF status \in {"RESOLVED", "FALSE_POSITIVE"} THEN Some(now) ELSE @]}
          /\ rules' = IF status = "FALSE_POSITIVE"
                      THEN [rules EXCEPT ![alert.rule].false_positives = @ + 1]
                      ELSE rules
    /\ response' = [endpoint |-> "update_status", status |-> 200]
    /\ UNCHANGED << now, suppressions, trackers, events, engine, nextEventPk,
                    nextTrackerPk, nextAlertPk, lastEvent, lastAlerts, pc, local,
                    lastRaised, processed, history, savedQueries >>

\* POST alerts/bulk_update/ with alert_ids and status: 400 when either is
\* missing, else one UPDATE of status and resolved_at on the rows listed
bulk_update(alert_ids, status) ==
    /\ IF alert_ids = {} \/ status = ""
       THEN /\ response' = [endpoint |-> "bulk_update", status |-> 400]
            /\ alerts' = alerts
       ELSE /\ alerts' = { IF alert.pk \in alert_ids
                            THEN [alert EXCEPT !.status = status, !.resolved_at = resolved_at(status, now)]
                            ELSE alert : alert \in alerts }
            /\ response' = [endpoint |-> "bulk_update", status |-> 200,
                            updated |-> Cardinality({alert \in alerts : alert.pk \in alert_ids})]
    /\ UNCHANGED << now, rules, suppressions, trackers, events, engine, nextEventPk,
                    nextTrackerPk, nextAlertPk, lastEvent, lastAlerts, pc, local,
                    lastRaised, processed, history, savedQueries >>

InitTriage == InitStores(TriageRules, {})

IngestTriage == Cardinality(alerts) < MaxTriageAlerts /\ ProcessEvent(1, TriageEvent, 0)

UpdateStatus ==
    \E alert \in alerts, status \in AlertStatuses :
        /\ rules[alert.rule].false_positives < MaxFalsePositives
        /\ update_status(alert.pk, status)

BulkUpdate ==
    \E alert_ids \in SUBSET (1..MaxTriageAlerts), status \in AlertStatuses \cup {""} :
        bulk_update(alert_ids, status)

NextTriage == IngestTriage \/ UpdateStatus \/ BulkUpdate

SpecTriage == InitTriage /\ [][NextTriage]_vars

\* the alerts of rule r that the step moves to FALSE_POSITIVE
MovedToFalsePositive(r) ==
    { alert \in alerts :
        /\ alert.rule = r
        /\ alert.status # "FALSE_POSITIVE"
        /\ \E after \in alerts' : after.pk = alert.pk /\ after.status = "FALSE_POSITIVE" }

\* C23: every step adds to each rule's false_positives exactly the number of
\* its alerts that the step moves to FALSE_POSITIVE
C23_FalsePositivesCounted ==
    [][ \A r \in DOMAIN rules :
          rules'[r].false_positives = rules[r].false_positives + Cardinality(MovedToFalsePositive(r)) ]_vars
\* ------------------------------------------------------------------------
\* AGGREGATE BY <field> COUNT (pql_engine.py 255-291, 549-607)
\* ------------------------------------------------------------------------
\* the latest query is AGGREGATE BY <field> COUNT on a known field, with no
\* WHERE clause or one on known fields, against a non-empty store
AggregateCount ==
    /\ Answered /\ ParsedInFull
    /\ ParsedQuery.ast.command = "AGGREGATE"
    /\ ParsedQuery.ast.group_by # None
    /\ KnownField(ParsedQuery.ast.group_by[1])
    /\ ParsedQuery.ast.aggregations = << <<"C", "O", "U", "N", "T">> >>
    /\ \A i \in 1..Len(ConditionsOf(ParsedQuery.ast)) : KnownField(ConditionsOf(ParsedQuery.ast)[i].field)
    /\ ParsedQuery.ast.within # None => ParsedQuery.ast.within[1].kind = "datetime"
    /\ events # << >>

\* the rows that satisfy the WHERE conditions and the WITHIN instant
Aggregated ==
    SelectSeq(Selected, LAMBDA run :
        ParsedQuery.ast.within # None => run.row.timestamp >= now - ParsedQuery.ast.within[1].n)

\* C24: AGGREGATE BY <field> COUNT against a non-empty store returns one row
\* per distinct value of the field among the events that satisfy the WHERE
\* conditions and the WITHIN instant, each with the count of its group
C24_AggregateCountsGroups ==
    AggregateCount =>
        LET column == Column(field_map_get(ParsedQuery.ast.group_by[1]))
            groups == { Aggregated[k].row[column] : k \in 1..Len(Aggregated) }
            size(g) == RowCount(SelectSeq(Aggregated, LAMBDA run : run.row[column] = g))
        IN  /\ response.error_type = ""
            /\ response.result_count = Cardinality(groups)
            /\ \A g \in groups :
                  \E k \in 1..Len(response.results) :
                      response.results[k].row = (column :> g) @@ ("count" :> size(g))
\* ------------------------------------------------------------------------
\* Built-in rules (apps/detection/builtin_rules.py)
\* ------------------------------------------------------------------------
MaxBuiltinEvents == 2

\* "User Added to Privileged Group" (84-106)
PrivilegedGroupRule ==
    Rule(1, "PATTERN", 5, 90,
         [DefaultLogic EXCEPT !.track_by = "target_user", !.window_minutes = 5,
                              !.event_ids = {4728, 4732, 4756},
                              !.patterns = { [field |-> "message",
                                              list |-> << Str("Domain Admins"), Str("Administrators"),
                                                          Str("Enterprise Admins"), Str("Schema Admins"),
                                                          Str("Account Operators"), Str("Backup Operators") >>] },
                              !.required_matches = Some(1)])

\* "New Account Created and Added to Admins" (107-125)
NewAdminAccountRule ==
    Rule(2, "CORRELATION", 60, 85,
         [DefaultLogic EXCEPT !.track_by = "target_user", !.window_minutes = 60,
                              !.required_events = {4720, 4732},
                              !.track_unique = {"user_name"}])

\* "Pass-the-Hash Detection" (161-183)
PassTheHashRule ==
    Rule(3, "PATTERN", 15, 70,
         [DefaultLogic EXCEPT !.track_by = "user_name", !.window_minutes = 5,
                              !.event_ids = {4624},
                              !.patterns = { [field |-> "logon_type", list |-> << Num(9) >>],
                                             [field |-> "authentication_package", list |-> << Str("NTLM") >>] },
                              !.required_matches = Some(2)])

\* install_builtin_rules: the rows are stored enabled
BuiltinRules == 1 :> PrivilegedGroupRule @@ 2 :> NewAdminAccountRule @@ 3 :> PassTheHashRule

\* a SecurityEvent with the fields the patterns read; logon_type is the text
\* str() gives for the integer, empty when the column is null
BuiltinEvent(event_id, message, logon_type, authentication_package) ==
    [message |-> message, logon_type |-> logon_type, authentication_package |-> authentication_package]
    @@ Event(event_id, 0, "dc01", "bob", "alice", "ip1", "p1", "s1", "w1")

\* 4732: a member was added to a security group
GroupChanges ==
    { BuiltinEvent(4732, m, "", "") : m \in {"Member added to Domain Admins", "Member added to Users"} }

\* 4720: a user account was created
AccountCreations == { BuiltinEvent(4720, "Account created", "", "") }

\* 4624: NTLM logons of type 9 (NewCredentials) or without a type
Logons == { BuiltinEvent(4624, "", t, "NTLM") : t \in {"9", ""} }

Stored(ids) == Cardinality({ k \in 1..Len(events) : events[k].event_id \in ids })

InitBuiltin == InitStores(BuiltinRules, {})

IngestGroupChange == Stored({4732}) < MaxBuiltinEvents /\ \E e \in GroupChanges : ProcessEvent(1, e, 0)

IngestAccountCreation == Stored({4720}) < MaxBuiltinEvents /\ \E e \in AccountCreations : ProcessEvent(1, e, 0)

IngestNtlmLogon == Stored({4624}) < MaxBuiltinEvents /\ \E e \in Logons : ProcessEvent(1, e, 0)

NextBuiltin == IngestGroupChange \/ IngestAccountCreation \/ IngestNtlmLogon

SpecBuiltin == InitBuiltin /\ [][NextBuiltin]_vars

\* an alert of rule r has been persisted
RuleFired(r) == \E alert \in alerts : alert.rule = r

\* an event that ProcessEvent was given satisfies p
Fed(p(_)) == \E k \in 1..Len(events) : p(events[k])

\* the events the descriptions of the three rules name
AddedToDomainAdmins(e) == e.event_id = 4732 /\ e.message = "Member added to Domain Admins"

AccountCreated(e) == e.event_id = 4720

AddedToGroup(e) == e.event_id = 4732

NewCredentialsOverNtlm(e) == e.event_id = 4624 /\ e.logon_type = "9" /\ e.authentication_package = "NTLM"

\* C25: every built-in rule can fire: once the events its description names
\* have been processed, the installed rule has raised an alert
C25_EveryBuiltinRuleFires ==
    /\ Fed(AddedToDomainAdmins) => RuleFired(1)
    /\ (Fed(AccountCreated) /\ Fed(AddedToGroup)) => RuleFired(2)
    /\ Fed(NewCredentialsOverNtlm) => RuleFired(3)

\* the correlation rule fires once an account creation and a group change
\* have been processed
CorrelationRuleFires == (Fed(AccountCreated) /\ Fed(AddedToGroup)) => RuleFired(2)

\* the two pattern rules raise no alert on any sequence of these events
PatternRulesNeverFire == ~RuleFired(1) /\ ~RuleFired(3)
\* ------------------------------------------------------------------------
\* Confidence and min_confidence (engine.py 222-225, 379-396, 430, 466, 505)
\* ------------------------------------------------------------------------
MaxConfidenceEvents == 7

\* one rule of each type, each with its own tracker key, without cooldown;
\* min is the min_confidence of the four
ConfidenceRules(min) ==
    1 :> Rule(1, "THRESHOLD", 0, min[1],
              [DefaultLogic EXCEPT !.event_ids = {4625}, !.threshold = 1, !.window_minutes = 1])
    @@ 2 :> Rule(2, "SEQUENCE", 0, min[2],
              [DefaultLogic EXCEPT !.track_by = "source_ip", !.window_minutes = 1,
                                   !.sequence = << [event_ids |-> {4625}, count |-> 1],
                                                   [event_ids |-> {4624}, count |-> 1] >>])
    @@ 3 :> Rule(3, "PATTERN", 0, min[3],
              [DefaultLogic EXCEPT !.track_by = "hostname", !.window_minutes = 1,
                                   !.patterns = { [field |-> "workstation_name", list |-> << Str("w1") >>],
                                                  [field |-> "process_name", list |-> << Str("p1") >>] },
                                   !.required_matches = Some(1)])
    @@ 4 :> Rule(4, "CORRELATION", 0, min[4],
              [DefaultLogic EXCEPT !.track_by = "target_user", !.window_minutes = 1,
                                   !.required_events = {4624, 4625}])

\* min_confidence values the computed confidences reach, and values they do not
ConfidenceFloors == { <<70, 85, 85, 90>>, <<100, 90, 95, 95>> }

ConfidenceEvents ==
    { Event(4625, 0, "h1", "alice", "bob", "ip1", "p1", "s1", "w1"),
      Event(4624, 0, "h1", "alice", "bob", "ip1", "p1", "s1", "w1"),
      Event(4624, 0, "h1", "alice", "bob", "ip1", "p1", "s1", "") }

InitConfidence == \E min \in ConfidenceFloors : InitStores(ConfidenceRules(min), {})

IngestConfidence == Len(events) < MaxConfidenceEvents /\ \E e \in ConfidenceEvents : ProcessEvent(1, e, 0)

NextConfidence == IngestConfidence

SpecConfidence == InitConfidence /\ [][NextConfidence]_vars

\* the alerts of rule r that the step persists
NewAlerts(r) == { alert \in alerts' \ alerts : alert.rule = r }

\* the confidence the rule's type gives the alert raised on event
TypeConfidence(rule, alert, event) ==
    CASE rule.rule_type = "THRESHOLD" -> Min(100, 50 + (alert.event_count - rule.logic.threshold) * 10)
      [] rule.rule_type = "SEQUENCE" -> 85
      [] rule.rule_type = "PATTERN" ->
            Min(100, 70 + Cardinality({ pattern \in rule.logic.patterns : event[pattern.field] # "" }) * 10)
      [] rule.rule_type = "CORRELATION" -> 90

\* the step evaluates rule r to a firing condition with a confidence below
\* the rule's min_confidence
FiresBelow(r) ==
    /\ ~rejected_before_tracker(rules[r], lastEvent', FALSE, FALSE)
    /\ \E tracker \in trackers' :
          /\ tracker.entity_type = Upper(rules[r].logic.track_by)
          /\ dispatch(rules[r], lastEvent', tracker) # None
          /\ dispatch(rules[r], lastEvent', tracker)[1] < rules[r].min_confidence

\* C26: every alert a call persists has min_confidence <= confidence <= 100,
\* the confidence being min(100, 50 + (count - threshold) * 10) for
\* THRESHOLD, 85 for SEQUENCE, min(100, 70 + matches * 10) for PATTERN and 90
\* for CORRELATION; total_alerts grows by the alerts persisted, and a firing
\* condition below min_confidence persists none and leaves it as it was
C26_ConfidenceWithinBounds ==
    [][ \A r \in DOMAIN rules :
          /\ \A alert \in NewAlerts(r) :
                /\ rules[r].min_confidence <= alert.confidence
                /\ alert.confidence <= 100
                /\ alert.confidence = TypeConfidence(rules[r], alert, lastEvent')
          /\ rules'[r].total_alerts = rules[r].total_alerts + Cardinality(NewAlerts(r))
          /\ FiresBelow(r) => (NewAlerts(r) = {} /\ rules'[r].total_alerts = rules[r].total_alerts) ]_vars

\* the sequence, pattern and correlation rules have fired below their
\* min_confidence and raised nothing, the threshold rule has raised an
\* alert only at confidence 100
C26_Witness ==
    /\ rules[1].min_confidence = 100
    /\ \E k \in 1..Len(events) : events[k].event_id = 4624
    /\ \E alert \in alerts : alert.rule = 1 /\ alert.confidence = 100 /\ alert.event_count = 6
    /\ \A alert \in alerts : alert.rule = 1 /\ alert.event_count >= 6
    /\ \A r \in {2, 3, 4} : rules[r].total_alerts = 0

\* the cap: the seventh failed logon gives 50 + 60, reported as 100
C26_WitnessCap ==
    \E alert \in alerts : alert.rule = 1 /\ alert.event_count = 7 /\ alert.confidence = 100
\* ------------------------------------------------------------------------
\* The window of a THRESHOLD rule (engine.py 118-131, 366-398)
\* ------------------------------------------------------------------------
\* the stored events that a THRESHOLD rule counts for the entity of event
\* and that lie within the rule's window up to and including event
WithinWindow(rule, event) ==
    { k \in 1..Len(events') :
        /\ events'[k].event_id \in (IF rule.logic.event_ids # {} THEN rule.logic.event_ids ELSE {event.event_id})
        /\ get_entity_value(events'[k], rule.logic.track_by) = get_entity_value(event, rule.logic.track_by)
        /\ events'[k].hostname = event.hostname
        /\ events'[k].timestamp >= event.timestamp - rule.logic.window_minutes
        /\ events'[k].timestamp <= event.timestamp }

\* C27: a THRESHOLD rule raises an alert on an event only if at least
\* threshold events of the matching ids for the entity have timestamps within
\* window_minutes up to and including the timestamp of that event
C27_ThresholdCountsWithinWindow ==
    [][ Processed =>
          \A alert \in alerts' \ alerts :
              rules[alert.rule].rule_type = "THRESHOLD" =>
                  Cardinality(WithinWindow(rules[alert.rule], lastEvent')) >= rules[alert.rule].logic.threshold ]_vars
\* ------------------------------------------------------------------------
\* Two worker processes, two rules on one tracker key (engine.py 57-67,
\* 272-280, 308-336, 519-540)
\* ------------------------------------------------------------------------
MaxEngineCalls == 3

\* two THRESHOLD rules on failed logons per user: at the first, at the second
FirstLogonRule ==
    Rule(1, "THRESHOLD", 0, 50, [DefaultLogic EXCEPT !.event_ids = {4625}, !.threshold = 1, !.window_minutes = 1])

SecondLogonRule ==
    Rule(2, "THRESHOLD", 0, 50, [DefaultLogic EXCEPT !.event_ids = {4625}, !.threshold = 2, !.window_minutes = 1])

EnginesRules == 1 :> FirstLogonRule @@ 2 :> SecondLogonRule

EnginesEvents == { Event(4625, 0, "h1", u, "", "ip1", "p1", "s1", "w1") : u \in {"alice", "bob"} }

\* reload_rules() in the process of worker w: _engine.load_rules()
ReloadRules(w) ==
    /\ pc[w] = "idle"
    /\ engine' = [engine EXCEPT ![w] = load_rules(rules)]
    /\ UNCHANGED << now, rules, suppressions, trackers, alerts, events, nextEventPk,
                    nextTrackerPk, nextAlertPk, lastEvent, lastAlerts, pc, local,
                    lastRaised, processed, response, history, savedQueries >>

InitEngines == InitStores(EnginesRules, {})

IngestEngines ==
    /\ nextEventPk <= MaxEngineCalls
    /\ \E w \in Workers, e \in EnginesEvents : ProcessEvent(w, e, 0)

Reload == \E w \in Workers : ReloadRules(w)

NextEngines == IngestEngines \/ Reload

SpecEngines == InitEngines /\ [][NextEngines]_vars

\* the orders in which the rules of a cache can be evaluated
Orders(cache) ==
    { [i \in 1..Len(cache) |-> cache[f[i]]] :
        f \in { g \in [1..Len(cache) -> 1..Len(cache)] : \A i, j \in 1..Len(cache) : g[i] = g[j] => i = j } }

\* an alert without its primary key
Unkeyed(alert) == [alert EXCEPT !.pk = 0]

\* the step is a call of process_event by worker w
CalledBy(w) ==
    /\ Processed
    /\ \E out \in process_event(Store(w), lastEvent', now) :
          /\ out.trackers = trackers' /\ out.alerts = alerts' /\ out.rules = rules'
          /\ out.cache = engine'[w] /\ out.ret = lastAlerts'

\* C28: the alerts process_event returns and the tracker and alert stores it
\* leaves are the same for every order of evaluating the enabled rules
C28_RuleOrderIrrelevant ==
    [][ \A w \in Workers :
          CalledBy(w) =>
              \A order \in Orders(engine[w]) :
                  \A out \in process_event([Store(w) EXCEPT !.cache = order], lastEvent', now) :
                      /\ { Unkeyed(out.ret[k]) : k \in 1..Len(out.ret) }
                             = { Unkeyed(lastAlerts'[k]) : k \in 1..Len(lastAlerts') }
                      /\ out.trackers = trackers'
                      /\ { Unkeyed(alert) : alert \in out.alerts } = { Unkeyed(alert) : alert \in alerts' } ]_vars

\* the count of event id in the tracker with primary key pk, 0 without one
CountBefore(pk, event_id) ==
    IF \E t \in trackers : t.pk = pk
    THEN get_event_count(CHOOSE t \in trackers : t.pk = pk, event_id)
    ELSE 0

\* C29: one call of process_event adds exactly 1 to the count of the event's
\* id in each tracker it touches, however many rules share the tracker key
C29_OneCountPerCall ==
    [][ Processed =>
          \A tracker \in trackers' \ trackers :
              get_event_count(tracker, lastEvent'.event_id)
                  = CountBefore(tracker.pk, lastEvent'.event_id) + 1 ]_vars

\* C30: after any interleaving of process_event calls of the workers and
\* reload_rules calls, each rule's stored total_alerts is the number of
\* alerts persisted for the rule
C30_TotalAlertsCountsAlerts ==
    \A r \in DOMAIN rules : rules[r].total_alerts = Cardinality({ alert \in alerts : alert.rule = r })
\* ------------------------------------------------------------------------
\* The early returns of evaluate_rule and the entity value (engine.py
\* 290-315, 350-364)
\* ------------------------------------------------------------------------
MaxEntityEvents == 2

\* one THRESHOLD rule per run: on user_name with the default exclusion of
\* system accounts, on user_name without it, and on source_ip
EntityRules ==
    { Rule(1, "THRESHOLD", 0, 50, [DefaultLogic EXCEPT !.event_ids = {4625}, !.threshold = 1, !.window_minutes = 1]),
      Rule(1, "THRESHOLD", 0, 50, [DefaultLogic EXCEPT !.event_ids = {4625}, !.threshold = 1, !.window_minutes = 1,
                                                       !.exclude_system_accounts = FALSE]),
      Rule(1, "THRESHOLD", 0, 50, [DefaultLogic EXCEPT !.track_by = "source_ip", !.threshold = 1, !.window_minutes = 1]) }

\* (event id, user_name, target_user_name, source_ip)
EntityEvents ==
    { Event(4625, 0, "h1", "alice", "", "ip1", "p1", "s1", "w1"),
      Event(4624, 0, "h1", "alice", "", "ip1", "p1", "s1", "w1"),
      Event(4625, 0, "h1", "SYSTEM", "bob", "ip1", "p1", "s1", "w1"),
      Event(4625, 0, "h1", "", "bob", "ip1", "p1", "s1", "w1"),
      Event(4625, 0, "h1", "", "", "ip1", "p1", "s1", "w1"),
      Event(4625, 0, "h1", "alice", "", "", "p1", "s1", "w1") }

InitEntity == \E rule \in EntityRules : InitStores(1 :> rule, {})

\* events of now, and events delivered late whose tracker is past retention
IngestEntity ==
    /\ nextEventPk <= MaxEntityEvents
    /\ \E e \in EntityEvents, age \in {0, DelayedAge} : ProcessEvent(1, e, age)

NextEntity == IngestEntity

SpecEntity == InitEntity /\ [][NextEntity]_vars

\* the rule returns before the tracker lookup: the event id is not on the
\* allow-list, the account is excluded as a system account, or the event
\* has no value for track_by
RejectedEarly(rule, event) ==
    \/ rule.logic.event_ids # {} /\ event.event_id \notin rule.logic.event_ids
    \/ /\ rule.logic.exclude_system_accounts
       /\ \/ is_system_account(event.user_name) /\ is_system_account(event.target_user_name)
          \/ rule.logic.track_by = "target_user" /\ is_system_account(event.target_user_name)
          \/ rule.logic.track_by = "user_name" /\ is_system_account(event.user_name)
    \/ get_entity_value(event, rule.logic.track_by) = ""

\* C31: when the rule rejects the event before the tracker lookup, the call
\* returns no alert, creates, modifies and deletes no tracker, creates no
\* alert and changes no rule counter
C31_EarlyReturnChangesNothing ==
    [][ (Processed /\ RejectedEarly(rules[1], lastEvent'))
            => /\ lastAlerts' = << >>
               /\ UNCHANGED << trackers, alerts, rules, engine, nextTrackerPk, nextAlertPk >> ]_vars

\* a rejected event after a late one: the tracker past retention is still stored
C31_Witness ==
    /\ Len(events) = 2
    /\ RejectedEarly(rules[1], lastEvent)
    /\ ~RejectedEarly(rules[1], events[1])
    /\ \E t \in trackers : t.window_end < now - CLEANUP_MINUTES
    /\ lastAlerts = << >>

\* C32: for a rule with track_by = user_name, an event on the allow-list
\* with an empty user_name and a non-system target_user_name is counted in
\* the USER_NAME tracker of the target_user_name
C32_FallsBackToTargetUser ==
    [][ ( /\ Processed
          /\ rules[1].logic.track_by = "user_name"
          /\ lastEvent'.event_id \in rules[1].logic.event_ids
          /\ lastEvent'.user_name = ""
          /\ ~is_system_account(lastEvent'.target_user_name) )
            => \E t \in trackers' :
                  /\ t.entity_type = "USER_NAME"
                  /\ t.entity_value = lastEvent'.target_user_name
                  /\ \E k \in 1..Len(t.event_ids) : t.event_ids[k] = lastEvent'.pk ]_vars
\* ------------------------------------------------------------------------
\* SpecSwap: process_event and reload_rules in two threads of one process.
\* Position 1 of pc and local is the thread inside process_event, position 2
\* the thread serving the toggle request; engine[1] is _engine.rules.
\* ------------------------------------------------------------------------
MaxSwapCalls == 2

SwapRules ==
    1 :> Rule(1, "THRESHOLD", 0, 50, [DefaultLogic EXCEPT !.threshold = 1, !.window_minutes = 1])
    @@ 2 :> Rule(2, "THRESHOLD", 0, 50, [DefaultLogic EXCEPT !.track_by = "source_ip", !.threshold = 1, !.window_minutes = 1])

SwapEvent == Event(4625, 0, "h1", "alice", "", "ip1", "p1", "s1", "w1")

RuleIds(cache) == [k \in 1..Len(cache) |-> cache[k].id]

\* variant of iterated_rules that reads self.rules anew at every rule
iterated_rules_reread(w) ==
    engine[1]

\* "for rule_id, rule in self.rules.items()": the dict that self.rules
\* named when the loop was entered
iterated_rules(w) ==
    local[w].rules

\* process_event is entered and the loop obtains self.rules
BeginEvaluation ==
    /\ pc[1] = "idle"
    /\ nextEventPk <= MaxSwapCalls
    /\ LET event == [SwapEvent EXCEPT !.pk = nextEventPk, !.timestamp = now]
       IN  /\ events' = Append(events, event)
           /\ processed' = Append(processed, event.pk)
           /\ local' = [local EXCEPT ![1] =
                  [ event |-> event, i |-> 1, ret |-> << >>, rules |-> engine[1],
                    first |-> RuleIds(engine[1]), evaluated |-> << >>, swapped |-> FALSE ]]
    /\ pc' = [pc EXCEPT ![1] = "rule"]
    /\ nextEventPk' = nextEventPk + 1
    /\ UNCHANGED << now, rules, suppressions, trackers, alerts, engine, nextTrackerPk,
                    nextAlertPk, lastEvent, lastAlerts, lastRaised, response, history,
                    savedQueries >>

\* one pass of the loop body: evaluate_rule on the next rule of the dict
EvaluateStep ==
    /\ pc[1] = "rule"
    /\ local[1].i <= Len(iterated_rules(1))
    /\ LET event == local[1].event
           st == [Store(1) EXCEPT !.cache = iterated_rules(1), !.ret = local[1].ret]
       IN  \E out \in try_evaluate_rule(st, local[1].i, event,
                                        is_system_account(event.user_name),
                                        is_system_account(event.target_user_name), now) :
              /\ trackers' = out.trackers
              /\ alerts' = out.alerts
              /\ rules' = out.rules
              /\ nextTrackerPk' = out.nextTrackerPk
              /\ nextAlertPk' = out.nextAlertPk
              /\ engine' = IF local[1].swapped THEN engine ELSE [engine EXCEPT ![1] = out.cache]
              /\ local' = [local EXCEPT ![1].rules = out.cache, ![1].ret = out.ret,
                                        ![1].i = @ + 1,
                                        ![1].evaluated = Append(@, iterated_rules(1)[local[1].i].id)]
    /\ UNCHANGED << now, suppressions, events, nextEventPk, lastEvent, lastAlerts, pc,
                    lastRaised, processed, response, history, savedQueries >>

\* the loop is exhausted: return alerts
FinishEvaluation ==
    /\ pc[1] = "rule"
    /\ local[1].i > Len(iterated_rules(1))
    /\ lastEvent' = local[1].event
    /\ lastAlerts' = local[1].ret
    /\ lastRaised' = FALSE
    /\ pc' = [pc EXCEPT ![1] = "idle"]
    /\ local' = [local EXCEPT ![1] = << >>]
    /\ UNCHANGED << now, rules, suppressions, trackers, alerts, events, engine,
                    nextEventPk, nextTrackerPk, nextAlertPk, processed, response,
                    history, savedQueries >>

\* toggle: rule.enabled = not rule.enabled; rule.save()
ToggleSave ==
    /\ pc[2] = "idle"
    /\ \E id \in DOMAIN rules : rules' = [rules EXCEPT ![id].enabled = ~@]
    /\ pc' = [pc EXCEPT ![2] = "reload"]
    /\ UNCHANGED << now, suppressions, trackers, alerts, events, engine, nextEventPk,
                    nextTrackerPk, nextAlertPk, lastEvent, lastAlerts, local, lastRaised,
                    processed, response, history, savedQueries >>

\* load_rules: the dict comprehension over the enabled rows
BuildMap ==
    /\ pc[2] = "reload"
    /\ local' = [local EXCEPT ![2] = [built |-> load_rules(rules)]]
    /\ pc' = [pc EXCEPT ![2] = "assign"]
    /\ UNCHANGED << now, rules, suppressions, trackers, alerts, events, engine,
                    nextEventPk, nextTrackerPk, nextAlertPk, lastEvent, lastAlerts,
                    lastRaised, processed, response, history, savedQueries >>

\* load_rules: self.rules = <the dict built>
AssignMap ==
    /\ pc[2] = "assign"
    /\ engine' = [engine EXCEPT ![1] = local[2].built]
    /\ local' = [local EXCEPT ![2] = << >>,
                              ![1] = IF pc[1] = "rule" THEN [@ EXCEPT !.swapped = TRUE] ELSE @]
    /\ pc' = [pc EXCEPT ![2] = "idle"]
    /\ UNCHANGED << now, rules, suppressions, trackers, alerts, events, nextEventPk,
                    nextTrackerPk, nextAlertPk, lastEvent, lastAlerts, lastRaised,
                    processed, response, history, savedQueries >>

InitSwap == InitStores(SwapRules, {})

NextSwap ==
    \/ BeginEvaluation \/ EvaluateStep \/ FinishEvaluation
    \/ ToggleSave \/ BuildMap \/ AssignMap

SpecSwap == InitSwap /\ [][NextSwap]_vars

\* C33: a process_event call that overlaps reload_rules evaluates exactly
\* the rules of one map, the one cached when its loop began or the one
\* cached when it returns, each rule once and in the map's order
C33_OneSnapshotPerCall ==
    [][ (pc[1] = "rule" /\ pc'[1] = "idle")
            => \/ local[1].evaluated = local[1].first
               \/ local[1].evaluated = RuleIds(engine[1]) ]_vars

\* a call about to return after both rules, while the cache was replaced
\* by a map without rule 1 during the call
C33_Witness ==
    /\ pc[1] = "rule"
    /\ local[1].i > Len(local[1].rules)
    /\ local[1].swapped
    /\ local[1].evaluated = << 1, 2 >>
    /\ RuleIds(engine[1]) = << 2 >>
\* ------------------------------------------------------------------------
\* SpecAdmin: the rule API disables rules while two worker processes, each
\* with its own engine, process events (views.py 27-92)
\* ------------------------------------------------------------------------
MaxAdminCalls == 3

AdminRules == 1 :> FirstLogonRule

\* POST rules/<pk>/toggle/ served by worker w: the flag is inverted and
\* saved, then reload_rules() reloads the engine of the serving process
Toggle(w, id) ==
    /\ pc[w] = "idle"
    /\ rules' = [rules EXCEPT ![id].enabled = ~@]
    /\ engine' = [engine EXCEPT ![w] = load_rules(rules')]
    /\ UNCHANGED << now, suppressions, trackers, alerts, events, nextEventPk,
                    nextTrackerPk, nextAlertPk, lastEvent, lastAlerts, pc, local,
                    lastRaised, processed, response, history, savedQueries >>

\* PATCH rules/<pk>/ with {"enabled": enabled}: ModelViewSet.partial_update
\* saves the row; no engine is reloaded
PartialUpdate(id, enabled) ==
    /\ rules' = [rules EXCEPT ![id].enabled = enabled]
    /\ UNCHANGED << now, suppressions, trackers, alerts, events, engine, nextEventPk,
                    nextTrackerPk, nextAlertPk, lastEvent, lastAlerts, pc, local,
                    lastRaised, processed, response, history, savedQueries >>

InitAdmin == InitStores(AdminRules, {})

IngestAdmin ==
    /\ nextEventPk <= MaxAdminCalls
    /\ \E w \in Workers, e \in EnginesEvents : ProcessEvent(w, e, 0)

ToggleRule == \E w \in Workers, id \in DOMAIN rules : Toggle(w, id)

UpdateRule == \E id \in DOMAIN rules, enabled \in BOOLEAN : PartialUpdate(id, enabled)

ReloadAdmin == \E w \in Workers : ReloadRules(w)

NextAdmin == IngestAdmin \/ ToggleRule \/ UpdateRule \/ ReloadAdmin

SpecAdmin == InitAdmin /\ [][NextAdmin]_vars

\* C34: a process_event call produces alerts only for rules that are
\* enabled in the rule table when the call is made
C34_OnlyEnabledRulesAlert ==
    [][ Processed => \A alert \in alerts' \ alerts : rules[alert.rule].enabled ]_vars
\* ------------------------------------------------------------------------
\* SpecSequence: a SEQUENCE rule of three steps (engine.py 400-442)
\* ------------------------------------------------------------------------
MaxSequenceEvents == 4

\* failed logon, then successful logon, then special privileges assigned
ChainRule ==
    Rule(1, "SEQUENCE", 0, 50,
         [DefaultLogic EXCEPT !.window_minutes = 10,
            !.sequence = << [event_ids |-> {4625}, count |-> 1],
                            [event_ids |-> {4624}, count |-> 1],
                            [event_ids |-> {4672}, count |-> 1] >>])

ChainEvents ==
    { Event(id, 0, "h1", "alice", "", "ip1", "p1", "s1", "w1") : id \in {4625, 4624, 4672} }

InitSequence == InitStores(1 :> ChainRule, {})

IngestSequence ==
    /\ nextEventPk <= MaxSequenceEvents
    /\ \E e \in ChainEvents : ProcessEvent(1, e, 0)

NextSequence == IngestSequence

SpecSequence == InitSequence /\ [][NextSequence]_vars

\* the stored events contain one event of every step of the sequence in
\* the declared order, the last of them being the latest event
InDeclaredOrder(stored, sequence) ==
    \E at \in [1..Len(sequence) -> 1..Len(stored)] :
        /\ \A i \in 1..Len(sequence) : stored[at[i]].event_id \in sequence[i].event_ids
        /\ \A i \in 1..(Len(sequence) - 1) : at[i] < at[i + 1]
        /\ at[Len(sequence)] = Len(stored)

\* C35: a SEQUENCE rule fires only if its steps were satisfied in the
\* declared order and the triggering event belongs to the final step
C35_SequenceInDeclaredOrder ==
    [][ (Processed /\ lastAlerts' # << >>)
            => InDeclaredOrder(events', rules[1].logic.sequence) ]_vars

\* the triggering event of every alert belongs to the final step
TriggerInFinalStep ==
    [][ (Processed /\ lastAlerts' # << >>) => lastEvent'.event_id = 4672 ]_vars
\* C36: the parser returns an AST or raises PQLSyntaxError and nothing else,
\* so a query that fails before execution is answered as a syntax error
C36_ParseRaisesOnlySyntaxError ==
    Answered =>
        /\ ParsedQuery.err \in {"", "PQLSyntaxError"}
        /\ (ParsedQuery.err # "" /\ response.endpoint = "execute") => response.error_type = "syntax_error"

\* the failures consume raises are syntax errors answered 400
ConsumeFailuresAreSyntaxErrors ==
    (Answered /\ ParsedQuery.err = "PQLSyntaxError" /\ response.endpoint = "execute")
        => response.status = 400 /\ response.error_type = "syntax_error"
\* ------------------------------------------------------------------------
\* SpecLex: PQLLexer.tokenize on every text over a small alphabet, one
\* step per pass of its while loop (pql_engine.py 55-92)
\* ------------------------------------------------------------------------
MaxLexLen == 3

LexAlphabet == {"=", "!", "<", "\"", "\\", "-", "1", "a", " ", "#"}

LexInputs == UNION { [1..n -> LexAlphabet] : n \in 0..MaxLexLen }

\* variant of lex_iteration that does not step over an unknown character
lex_iteration_no_skip(query, pos, tokens) ==
    LET p == scan_while(query, pos, SpaceSet)
        char == query[p]
        read == IF char \in {"\"", "'"} THEN read_string(query, p)
                ELSE IF \/ char \in DigitSet
                        \/ char = "-" /\ p + 1 <= Len(query) /\ query[p + 1] \in DigitSet
                THEN read_number(query, p)
                ELSE IF char \in LetterSet \/ char = "_" THEN read_identifier(query, p)
                ELSE IF char \in {"=", "!", "<", ">"} THEN read_comparison(query, p)
                ELSE [token |-> Token("SKIP", << >>), pos |-> p]
    IN  IF p > Len(query) THEN [pos |-> p, tokens |-> tokens]
        ELSE [pos |-> read.pos,
              tokens |-> IF read.token.type = "SKIP" THEN tokens ELSE Append(tokens, read.token)]

\* one pass of the while loop of tokenize: self.pos and self.tokens after it
lex_iteration(query, pos, tokens) ==
    LET p == scan_while(query, pos, SpaceSet)
        char == query[p]
        read == IF char \in {"\"", "'"} THEN read_string(query, p)
                ELSE IF \/ char \in DigitSet
                        \/ char = "-" /\ p + 1 <= Len(query) /\ query[p + 1] \in DigitSet
                THEN read_number(query, p)
                ELSE IF char \in LetterSet \/ char = "_" THEN read_identifier(query, p)
                ELSE IF char \in {"=", "!", "<", ">"} THEN read_comparison(query, p)
                ELSE IF char = "|" THEN [token |-> Token("PIPE", <<"|">>), pos |-> p + 1]
                ELSE IF char = "," THEN [token |-> Token("COMMA", <<",">>), pos |-> p + 1]
                ELSE IF char = "(" THEN [token |-> Token("LPAREN", <<"(">>), pos |-> p + 1]
                ELSE IF char = ")" THEN [token |-> Token("RPAREN", <<")">>), pos |-> p + 1]
                ELSE [token |-> Token("SKIP", << >>), pos |-> p + 1]
    IN  IF p > Len(query) THEN [pos |-> p, tokens |-> tokens]
        ELSE [pos |-> read.pos,
              tokens |-> IF read.token.type = "SKIP" THEN tokens ELSE Append(tokens, read.token)]

\* PQLLexer(query): pos at the first character, no tokens
InitLex ==
    /\ \E query \in LexInputs :
          local = [w \in Workers |-> IF w = 1 THEN [query |-> query, pos |-> 1, tokens |-> << >>]
                                     ELSE << >>]
    /\ pc = [w \in Workers |-> IF w = 1 THEN "lexing" ELSE "idle"]
    /\ now = 0
    /\ rules = << >>
    /\ suppressions = {}
    /\ trackers = {}
    /\ alerts = {}
    /\ events = << >>
    /\ engine = [w \in Workers |-> << >>]
    /\ nextEventPk = 1
    /\ nextTrackerPk = 1
    /\ nextAlertPk = 1
    /\ lastEvent = NoEvent
    /\ lastAlerts = << >>
    /\ lastRaised = FALSE
    /\ processed = << >>
    /\ response = NoResponse
    /\ history = << >>
    /\ savedQueries = << >>

\* while self.pos < len(self.query): one pass
LexStep ==
    /\ pc[1] = "lexing"
    /\ local[1].pos <= Len(local[1].query)
    /\ LET after == lex_iteration(local[1].query, local[1].pos, local[1].tokens)
       IN  local' = [local EXCEPT ![1].pos = after.pos, ![1].tokens = after.tokens]
    /\ UNCHANGED << now, rules, suppressions, trackers, alerts, events, engine,
                    nextEventPk, nextTrackerPk, nextAlertPk, lastEvent, lastAlerts, pc,
                    lastRaised, processed, response, history, savedQueries >>

\* self.tokens.append((PQLToken.EOF, None)); return self.tokens
LexReturn ==
    /\ pc[1] = "lexing"
    /\ local[1].pos > Len(local[1].query)
    /\ local' = [local EXCEPT ![1].tokens = Append(@, Token("EOF", << >>))]
    /\ pc' = [pc EXCEPT ![1] = "lexed"]
    /\ UNCHANGED << now, rules, suppressions, trackers, alerts, events, engine,
                    nextEventPk, nextTrackerPk, nextAlertPk, lastEvent, lastAlerts,
                    lastRaised, processed, response, history, savedQueries >>

NextLex == LexStep \/ LexReturn

SpecLex == InitLex /\ [][NextLex]_vars

\* the loop is scheduled as long as it has a pass to make
FairSpecLex == SpecLex /\ WF_vars(NextLex)

Lexed == pc[1] = "lexed"

\* C37: every COMPARISON token the lexer emits has one of the texts
\* =, !=, <, <=, >, >=
C37_ComparisonTokensAreOperators ==
    \A k \in 1..Len(local[1].tokens) :
        local[1].tokens[k].type = "COMPARISON"
            => local[1].tokens[k].value \in
                  { <<"=">>, <<"!", "=">>, <<"<">>, <<"<", "=">>, <<">">>, <<">", "=">> }

\* the token list the loop returned is the one tokenize computes
LoopComputesTokenize == Lexed => local[1].tokens = tokenize(local[1].query)

\* C40: tokenize terminates on every text, and the list it returns holds
\* exactly one EOF token, as its last element
C40_TokenizeTerminatesWithOneEOF ==
    /\ <>Lexed
    /\ [](Lexed => /\ local[1].tokens[Len(local[1].tokens)].type = "EOF"
                   /\ \A k \in 1..(Len(local[1].tokens) - 1) : local[1].tokens[k].type # "EOF")
    /\ [][local'[1].pos > local[1].pos \/ (local'[1].pos = local[1].pos /\ pc'[1] = "lexed")]_vars

\* returned on an unterminated string that ends in a backslash, with pos
\* beyond the end of the text
C40_Witness ==
    /\ Lexed
    /\ local[1].query = <<"\"", "a", "\\">>
    /\ local[1].pos > Len(local[1].query) + 1
    /\ Len(local[1].tokens) = 2

\* returned on a lone '-' and an unknown character: EOF is the only token
C40_WitnessSkipped ==
    /\ Lexed
    /\ local[1].query = <<"-", "#">>
    /\ local[1].tokens = << Token("EOF", << >>) >>
\* ------------------------------------------------------------------------
\* SpecEvidence: one entity's logons beyond the 50 identifiers an alert
\* surfaces (engine.py 236-251)
\* ------------------------------------------------------------------------
MaxEvidenceEvents == 52

\* a THRESHOLD rule over failed and successful logons without cooldown
EvidenceRules ==
    { Rule(1, "THRESHOLD", 0, 50, [DefaultLogic EXCEPT !.event_ids = {4625, 4624}, !.threshold = threshold])
        : threshold \in {1, 50, 51} }

\* failed and successful logons of alice in turn
EvidenceEvent(pk) ==
    Event(IF pk % 2 = 1 THEN 4625 ELSE 4624, 0, "h1", "alice", "", "ip1", "p1", "s1", "w1")

InitEvidence == \E rule \in EvidenceRules : InitStores(1 :> rule, {})

IngestEvidence ==
    /\ nextEventPk <= MaxEvidenceEvents
    /\ ProcessEvent(1, EvidenceEvent(nextEventPk), 0)

NextEvidence == IngestEvidence

SpecEvidence == InitEvidence /\ [][NextEvidence]_vars

\* matched is the end of ids, of length min(MATCHED_EVENTS_LIMIT, Len(ids))
EndOf(matched, ids) ==
    /\ Len(matched) = Min(MATCHED_EVENTS_LIMIT, Len(ids))
    /\ \A k \in 1..Len(matched) : matched[k] = ids[Len(ids) - Len(matched) + k]

\* C38: every alert's matched_events holds at most 50 identifiers, the last
\* min(50, n) entries of the tracker's event_ids in their order, ending
\* with the triggering event; event_count is the tracker's total count
C38_MatchedEventsAreTheLastFifty ==
    [][ Processed =>
          \A alert \in alerts' \ alerts : \A tracker \in trackers' :
              /\ Len(alert.matched_events) <= MATCHED_EVENTS_LIMIT
              /\ EndOf(alert.matched_events, tracker.event_ids)
              /\ alert.matched_events[Len(alert.matched_events)] = lastEvent'.pk
              /\ alert.event_count = SumCounts(tracker.event_counts, DOMAIN tracker.event_counts)
              /\ alert.event_count = Len(events') ]_vars

\* the alert of the 52nd logon: 50 identifiers from the third on, 52 counted
C38_Witness ==
    \E alert \in alerts :
        /\ alert.event_count = 52
        /\ Len(alert.matched_events) = MATCHED_EVENTS_LIMIT
        /\ alert.matched_events[1] = 3
        /\ alert.matched_events[MATCHED_EVENTS_LIMIT] = 52
        /\ Cardinality(trackers) = 1
\* C39: every persisted alert has first_event_time <= last_event_time,
\* whatever the order of the timestamps of the events processed
C39_FirstEventNotAfterLast ==
    \A alert \in alerts : alert.first_event_time <= alert.last_event_time

\* the alerts raised on an event whose timestamp is the latest processed
\* for its tracker are ordered
OrderedWhenTimestampsAscend ==
    [][ (Processed /\ \A k \in 1..Len(events) : events[k].timestamp <= lastEvent'.timestamp)
            => \A alert \in alerts' \ alerts : alert.first_event_time <= alert.last_event_time ]_vars
====
